---------------------------- MODULE Spec2Model ----------------------------
(***************************************************************************)
(* A model of cm-intel (src/src/App.tsx): the digest assembler             *)
(* processApiResponse, the sentiment scanner runSentimentAnalysis, the     *)
(* resolver analyzeMarketSentiment and the fetch workflow fetchNewsDigest. *)
(*                                                                         *)
(* Text.  A JavaScript string is modelled as a sequence of lexical tokens; *)
(* the string it stands for is the tokens of each line joined by one       *)
(* space, the lines joined by "\n".  A token is a record with a kind k:    *)
(*   [k |-> "nl"]                        a newline                         *)
(*   [k |-> "dir", v |-> "BULLISH"]      the text "SENTIMENT: BULLISH"     *)
(*   [k |-> "w", w |-> "btc"]            a prose word                      *)
(*   [k |-> "bold"]                      the markdown marker "**"          *)
(*   [k |-> "src", cap, colon]           "Sources"/"sources", with ":"     *)
(*   [k |-> "idx", form, n]              "N." (dot), "[N]" (br), "N:"      *)
(*                                       (colon), "N" (bare, in titles)    *)
(*   [k |-> "url", abs, host]            "https://<host>/p" or "<host>/p"  *)
(*   [k |-> "obj", url]                  the text ["url":"<url>"]          *)
(*   [k |-> "sp"]                        blank space left by a removal     *)
(* Every regular expression of the source is translated to the predicate   *)
(* on token sequences that it decides on the strings those sequences stand *)
(* for.                                                                    *)
(***************************************************************************)
EXTENDS Integers, Sequences, FiniteSets, TLC

(***************************************************************************)
(* Bounds of the model.                                                    *)
(***************************************************************************)
MaxBody == 2        \* tokens of body prose in an enumerated raw text
MaxLines == 2       \* entries in an enumerated trailing sources block
MaxSources == 2     \* entries in an enumerated apiSources list
MaxWords == 3       \* tokens of a content given to the scanner alone
MaxRuns == 2        \* runs of fetchNewsDigest in flight at once
MaxTime == 1        \* days the clock runs
MaxRows == 1        \* rows of daily_summaries
MaxTimers == 1      \* retry timers pending at once
MaxRetryCount == 2  \* the value up to which retryCount is followed
MaxForce == 1       \* clicks on Force Generate
MaxClean == 4       \* tokens of a text given to the markdown cleanup alone
MaxDirective == 3   \* tokens of a raw text that holds sentiment directives
MaxLabels == 4      \* labels of a hostname given to getDomainName alone
MaxRepeat == 3      \* lines of one kind in a text scanned for its evidence
MaxCalls == 2       \* invocations of the generate-daily-summary function
MaxHour == 8        \* hours the clock of the function runs
MaxOutageRetries == 4  \* the retries followed while every call fails
MaxEdgeSources == 2  \* sources the generation API returns to the function
MaxHistoryRows == 4  \* rows of daily_summaries while the history is fetched
MaxParts == 2        \* parts of a content that is rendered

None == [k |-> "none"]
Undefined == "undefined"          \* undefined / null
EmptyStr == [k |-> "empty"]     \* the empty string ""

NL == [k |-> "nl"]
SP == [k |-> "sp"]
BOLD == [k |-> "bold"]
W(word) == [k |-> "w", w |-> word]
Dir(v) == [k |-> "dir", v |-> v]
Src(cap, colon) == [k |-> "src", cap |-> cap, colon |-> colon]
Idx(form, n) == [k |-> "idx", form |-> form, n |-> n]
Url(abs, host) == [k |-> "url", abs |-> abs, host |-> host]
Obj(u) == [k |-> "obj", url |-> u]

IsNL(t) == t.k = "nl"
IsSpace(t) == t.k \in {"nl", "sp"}

Min(S) == CHOOSE x \in S : \A y \in S : x <= y
Max(S) == CHOOSE x \in S : \A y \in S : x >= y

\* The first index of s whose token is in the set I of indices, 0 if none.
FirstOf(I) == IF I = {} THEN 0 ELSE Min(I)

RECURSIVE Flatten(_)
Flatten(ss) == IF ss = <<>> THEN <<>> ELSE Head(ss) \o Flatten(Tail(ss))

\* String.prototype.trim: leading and trailing white space removed.
Trim(s) ==
  LET I == {i \in 1..Len(s) : ~IsSpace(s[i])}
  IN IF I = {} THEN <<>> ELSE SubSeq(s, Min(I), Max(I))

\* String.prototype.split('\n'): the lines of s ("" splits to one empty line).
RECURSIVE SplitLines(_)
SplitLines(s) ==
  LET I == {i \in 1..Len(s) : IsNL(s[i])}
  IN IF I = {} THEN <<s>>
     ELSE <<SubSeq(s, 1, Min(I) - 1)>> \o SplitLines(SubSeq(s, Min(I) + 1, Len(s)))

(***************************************************************************)
(* getDomainName and getFavicon.  new URL(u) succeeds exactly on an        *)
(* absolute URL and throws on anything else; a domain name is the sequence *)
(* of its labels.                                                          *)
(***************************************************************************)
Thrown == [k |-> "thrown"]      \* an exception that was raised and not caught

UrlParses(u) == u.k = "url" /\ u.abs

\* new URL(url): the parsed URL, or Thrown.
NewURL(url) == IF UrlParses(url) THEN url ELSE Thrown

\* The labels of the hostname, nothing removed.
HostParts_KeepWww(host) == host

\* hostname.replace(/^www\./, '').split('.')
HostParts(host) == IF Len(host) > 1 /\ host[1] = "www" THEN Tail(host) ELSE host

Domain(labels) == [k |-> "domain", labels |-> labels]

\* getDomainName without its try/catch: the exception of new URL escapes.
getDomainName_NoCatch(url) ==
  LET u == NewURL(url)
  IN IF u = Thrown THEN Thrown
     ELSE Domain(<<u.host[Len(u.host) - 1], u.host[Len(u.host)]>>)

\* try { ... } catch { return url; }
getDomainName(url) ==
  LET u == NewURL(url)
  IN IF u = Thrown THEN url
     ELSE LET parts == HostParts(u.host)
          IN IF Len(parts) >= 2
             THEN IF parts[1] = "markets" /\ parts[2] = "businessinsider"
                  THEN Domain(<<"businessinsider", parts[Len(parts)]>>)
                  ELSE Domain(<<parts[Len(parts) - 1], parts[Len(parts)]>>)
             ELSE Domain(u.host)

\* try { return `${new URL(url).origin}/favicon.ico`; } catch { return ''; }
getFavicon(url) ==
  LET u == NewURL(url)
  IN IF u = Thrown THEN EmptyStr ELSE [k |-> "favicon", host |-> u.host]

Citation(number, title, url, favicon) ==
  [number |-> number, title |-> title, url |-> url, isCited |-> TRUE,
   favicon |-> favicon]


(***************************************************************************)
(* processApiResponse, step by step.                                       *)
(***************************************************************************)

\* String.prototype.toUpperCase on the spellings of a directive's value.
UpperCase ==
  [bullish |-> "BULLISH", Bullish |-> "BULLISH", bearish |-> "BEARISH",
   Bearish |-> "BEARISH", neutral |-> "NEUTRAL", Neutral |-> "NEUTRAL",
   mixed |-> "MIXED"]

toUpperCase(v) == IF v \in DOMAIN UpperCase THEN UpperCase[v] ELSE v

\* content.match(/^SENTIMENT:\s*(BULLISH|BEARISH|NEUTRAL)/i): without the m
\* flag, ^ is the start of the text.
sentimentMatch(content) ==
  /\ Len(content) > 0
  /\ content[1].k = "dir"
  /\ toUpperCase(content[1].v) \in {"BULLISH", "BEARISH", "NEUTRAL"}

\* The mapping without toUpperCase.
MapSentiment_CaseSensitive(v) ==
  IF v = "BULLISH" THEN "up" ELSE IF v = "BEARISH" THEN "down" ELSE "neutral"

\* sentimentMatch[1].toUpperCase(): BULLISH -> up, BEARISH -> down, otherwise
\* neutral.
MapSentiment(v) ==
  IF toUpperCase(v) = "BULLISH" THEN "up"
  ELSE IF toUpperCase(v) = "BEARISH" THEN "down" ELSE "neutral"

\* The explicitSentiment of the digest: undefined when no directive leads the
\* text.
ExplicitSentiment(content) ==
  IF sentimentMatch(content) THEN MapSentiment(content[1].v) ELSE Undefined

\* content.replace(/^SENTIMENT:\s*(...)\s*\n*/i, '').trim(), only on a match.
RemoveDirective(content) ==
  IF sentimentMatch(content) THEN Trim(Tail(content)) ELSE content

\* The API sources branch: one citation per entry, numbered from 1.
ApiCitations(apiSources) ==
  [i \in 1..Len(apiSources) |->
     LET source == apiSources[i]
         url == IF source.url = None THEN EmptyStr ELSE source.url
         title == IF source.title = None THEN getDomainName(url) ELSE source.title
     IN Citation(i, title, url, getFavicon(url))]

\* content.match(/(?:\*\*)?Sources(?:\*\*)?\s*(?::|$)([\s\S]+)?$/i): the index
\* of the leftmost "Sources" that is followed by ":" or by white space up to
\* the end of the text; 0 when there is none.
SourcesBlockAt(s) ==
  FirstOf({i \in 1..Len(s) :
             /\ s[i].k = "src"
             /\ (s[i].colon \/ \A j \in (i + 1)..Len(s) : IsSpace(s[j]))})

\* sourcesBlockMatch[1]: the text after the ":"; the group is undefined when
\* it did not take part in the match (no ":" or nothing after it).
SourcesBlockGroup(s) ==
  LET i == SourcesBlockAt(s)
  IN IF i > 0 /\ s[i].colon /\ i < Len(s)
     THEN [defined |-> TRUE, text |-> SubSeq(s, i + 1, Len(s))]
     ELSE [defined |-> FALSE, text |-> <<>>]

\* The line pattern with only the "N." form of the index token.
SourceLineAt_DotOnly(line) ==
  FirstOf({j \in 1..(Len(line) - 1) :
             /\ line[j].k = "idx" /\ line[j].form = "dot"
             /\ line[j + 1].k = "url" /\ line[j + 1].abs})

\* line.match(/(?:^|\s)(?:\[?(\d+)\]?\.?:?\s+)(https?:\/\/[^\s]+)/i): the index
\* in the line of the first index token directly followed by an absolute URL.
SourceLineAt(line) ==
  FirstOf({j \in 1..(Len(line) - 1) :
             /\ line[j].k = "idx"
             /\ line[j + 1].k = "url" /\ line[j + 1].abs})

SourceLineCitation(line) ==
  LET j == SourceLineAt(line)
  IN IF j = 0 THEN <<>>
     ELSE <<Citation(line[j].n, getDomainName(line[j + 1]), line[j + 1],
                     getFavicon(line[j + 1]))>>

\* for (const line of sourcesLines) { ... citations.push(...) }
SourcesBlockCitations(group) ==
  LET lines == SplitLines(group)
  IN Flatten([i \in 1..Len(lines) |-> SourceLineCitation(lines[i])])

\* processedContent.replace(/(?:\*\*)?Sources(?:\*\*)?\s*(?::|$)[\s\S]+$/i, '')
\* .trim(): here the text after the heading is not optional.
StripSourcesBlock(pc) ==
  LET i == FirstOf({i \in 1..Len(pc) :
                      pc[i].k = "src" /\ pc[i].colon /\ i < Len(pc)})
  IN Trim(IF i = 0 THEN pc ELSE SubSeq(pc, 1, i - 1))

\* processedContent.match(/Sources?:?\s*([\s\S]+)$/i): the leftmost "source";
\* a plural or colon-ended token always leaves a character for the group.
SourcesSectionAt(pc) == FirstOf({i \in 1..Len(pc) : pc[i].k = "src"})

HasBracket(t) == (t.k = "idx" /\ t.form = "br") \/ t.k = "obj"
IsMarker(t) == t.k = "idx" /\ t.form = "br"

\* .replace(/^[-:\s]+|[-:\s]+$/g, '').trim(): white space and the delimiters
\* "-" and ":" go from both ends; only "N:" and "Sources:" end in one.
StripDelims(toks) ==
  LET t == Trim(toks)
  IN IF t = <<>> THEN t
     ELSE LET last == t[Len(t)]
              cut == IF last.k = "idx" /\ last.form = "colon" THEN Idx("bare", last.n)
                     ELSE IF last.k = "src" THEN Src(last.cap, FALSE)
                     ELSE last
          IN [t EXCEPT ![Len(t)] = cut]

\* One entry "[N] text" of the section: the citation it gives, if any.
\* urlMatch is the first URL-looking token of the text; the title is the text
\* without it, or the derived domain name when nothing else is left.
SectionEntryCitation(number, text) ==
  LET U == {j \in 1..Len(text) : text[j].k = "url"}
  IN IF U = {} THEN <<>>
     ELSE LET j == Min(U)
              url == text[j]
              rest == StripDelims(SubSeq(text, 1, j - 1) \o SubSeq(text, j + 1, Len(text)))
              title == IF rest = <<>> THEN getDomainName(url)
                       ELSE [k |-> "text", toks |-> rest]
              full == IF url.abs THEN url ELSE Url(TRUE, url.host)
          IN <<Citation(number, title, full, getFavicon(full))>>

\* while ((match = citationRegex.exec(sourcesSection)) !== null), with
\* citationRegex = /\[(\d+)\]\s*([^[]+?)(?=\s*(?:\[\d+\]|$))/g, scanning the
\* section from token p on.
RECURSIVE SectionCitations(_, _)
SectionCitations(sec, p) ==
  LET M == {j \in p..Len(sec) : IsMarker(sec[j])}
  IN IF M = {} THEN <<>>
     ELSE LET j == Min(M)
              B == {e \in (j + 1)..Len(sec) : HasBracket(sec[e])}
              stop == IF B = {} THEN Len(sec) + 1 ELSE Min(B)
              ok == stop > j + 1 /\ (stop > Len(sec) \/ IsMarker(sec[stop]))
          IN IF ok
             THEN SectionEntryCitation(sec[j].n, SubSeq(sec, j + 1, stop - 1))
                  \o SectionCitations(sec, stop)
             ELSE SectionCitations(sec, j + 1)

\* processedContent.replace(/Sources?:?\s*[\s\S]+$/, '').trim(): this one is
\* case-sensitive.
StripSourcesSection(pc) ==
  LET i == FirstOf({i \in 1..Len(pc) : pc[i].k = "src" /\ pc[i].cap})
  IN Trim(IF i = 0 THEN pc ELSE SubSeq(pc, 1, i - 1))

\* The inline [ "url": "..." ] objects, numbered from 1 in order of occurrence.
InlineCitations(pc) ==
  LET objs == SelectSeq(pc, LAMBDA t : t.k = "obj")
  IN [i \in 1..Len(objs) |->
        Citation(i, getDomainName(objs[i].url), objs[i].url, getFavicon(objs[i].url))]

\* processedContent.replace(/\[\s*(?:"url"...)\s*\]/g, ''): blanks are left.
StripInline(pc) == [i \in 1..Len(pc) |-> IF pc[i].k = "obj" THEN SP ELSE pc[i]]

(***************************************************************************)
(* The chain of text strategies (the else branch, lines 370-471).  Each    *)
(* step is given the citations and the processedContent so far and returns *)
(* both, with ran: the strategies entered, and by: for each strategy, how  *)
(* many citations it pushed.                                               *)
(***************************************************************************)
Step(citations, pc, ran, by) ==
  [citations |-> citations, pc |-> pc, ran |-> ran, by |-> by]

NoneBy == [s \in {"api", "block", "section", "inline"} |-> 0]

\* if (sourcesBlockMatch && sourcesBlockMatch[1]) { ... }
SourcesBlockStep(content, pc) ==
  LET group == SourcesBlockGroup(content)
  IN IF ~group.defined THEN Step(<<>>, pc, {"block"}, NoneBy)
     ELSE LET c == SourcesBlockCitations(group.text)
          IN Step(c, StripSourcesBlock(pc), {"block"},
                  [NoneBy EXCEPT !["block"] = Len(c)])

\* The guard left out: a later strategy runs whatever the earlier ones found.
StillEmpty_Always(citations) == TRUE

\* The guard of the second and third text strategies.
StillEmpty(citations) == Len(citations) = 0

\* if (citations.length === 0) { const sourcesMatch = ...; if (sourcesMatch) ... }
SourcesSectionStep(st) ==
  IF ~StillEmpty(st.citations) THEN st
  ELSE LET i == SourcesSectionAt(st.pc)
       IN IF i = 0 THEN [st EXCEPT !.ran = @ \cup {"section"}]
          ELSE LET c == SectionCitations(SubSeq(st.pc, i + 1, Len(st.pc)), 1)
               IN Step(st.citations \o c, StripSourcesSection(st.pc),
                       st.ran \cup {"section"},
                       [st.by EXCEPT !["section"] = Len(c)])

\* if (citations.length === 0) { ... inline JSON-like format ... }
InlineStep(st) ==
  IF ~StillEmpty(st.citations) THEN st
  ELSE LET c == InlineCitations(st.pc)
       IN Step(st.citations \o c, StripInline(st.pc), st.ran \cup {"inline"},
               [st.by EXCEPT !["inline"] = Len(c)])

\* The branches the wrong way round: the text strategies first, the structured
\* sources only when the text gave nothing.
Extract_TextFirst(content, apiSources, pc) ==
  LET t == InlineStep(SourcesSectionStep(SourcesBlockStep(content, pc)))
  IN IF Len(t.citations) > 0 \/ Len(apiSources) = 0 THEN t
     ELSE Step(ApiCitations(apiSources), pc, {"api"},
               [NoneBy EXCEPT !["api"] = Len(apiSources)])

\* The structured sources taken, and the text stripped all the same.
Extract_ApiThenStrip(content, apiSources, pc) ==
  IF Len(apiSources) > 0
  THEN Step(ApiCitations(apiSources), StripInline(StripSourcesBlock(pc)), {"api"},
            [NoneBy EXCEPT !["api"] = Len(apiSources)])
  ELSE InlineStep(SourcesSectionStep(SourcesBlockStep(content, pc)))

\* if (apiSources && apiSources.length > 0) { ... } else { ... }
Extract(content, apiSources, pc) ==
  IF Len(apiSources) > 0
  THEN Step(ApiCitations(apiSources), pc, {"api"},
            [NoneBy EXCEPT !["api"] = Len(apiSources)])
  ELSE InlineStep(SourcesSectionStep(SourcesBlockStep(content, pc)))

\* citations.sort((a, b) => a.number - b.number): a stable insertion sort.
RECURSIVE SortAux(_, _)
SortAux(cs, i) ==
  IF i = 0 THEN <<>>
  ELSE LET rest == SortAux(cs, i - 1)
       IN IF rest = <<>> THEN <<cs[i]>>
          ELSE \* cs[i] comes after equal numbers already placed
               LET before == SelectSeq(rest, LAMBDA x : x.number <= cs[i].number)
                   after == SelectSeq(rest, LAMBDA x : x.number > cs[i].number)
               IN before \o <<cs[i]>> \o after

SortCitations(citations) == SortAux(citations, Len(citations))

(***************************************************************************)
(* The markdown cleanup (lines 483-487).                                   *)
(***************************************************************************)
\* .replace(/\*\*/g, ''): the marker goes, the blanks around it stay.
RemoveBold(s) == [i \in 1..Len(s) |-> IF s[i].k = "bold" THEN SP ELSE s[i]]

LineStart(s, p) == p = 1 \/ IsNL(s[p - 1])

\* .replace(/^\d+\.\s+/gm, ''): an "N." at the start of a line goes together
\* with all the white space after it; the scan goes on after the match.
RECURSIVE RemoveOrdinals(_, _)
RemoveOrdinals(s, p) ==
  IF p > Len(s) THEN <<>>
  ELSE IF /\ LineStart(s, p)
          /\ s[p].k = "idx" /\ s[p].form = "dot"
          /\ p < Len(s)
       THEN LET R == {q \in (p + 1)..Len(s) : ~IsSpace(s[q])}
            IN IF R = {} THEN <<>> ELSE RemoveOrdinals(s, Min(R))
       ELSE <<s[p]>> \o RemoveOrdinals(s, p + 1)

\* .replace(/\n+/g, '\n\n'): every run of newlines becomes two newlines.
RECURSIVE NormalizeBreaks(_)
NormalizeBreaks(s) ==
  IF s = <<>> THEN <<>>
  ELSE IF IsNL(Head(s))
       THEN LET R == {q \in 1..Len(s) : ~IsNL(s[q])}
            IN <<NL, NL>> \o (IF R = {} THEN <<>>
                             ELSE NormalizeBreaks(SubSeq(s, Min(R), Len(s))))
       ELSE <<Head(s)>> \o NormalizeBreaks(Tail(s))

Cleanup(pc) == NormalizeBreaks(RemoveOrdinals(RemoveBold(pc), 1))

(***************************************************************************)
(* processApiResponse(content, apiSources), stamped with the instant now.  *)
(***************************************************************************)
\* An exception raised while a citation was built leaves the function.
Raises(citations) ==
  \E i \in 1..Len(citations) :
     citations[i].title = Thrown \/ citations[i].favicon = Thrown

processApiResponse(content, apiSources, now) ==
  LET st == Extract(content, apiSources, RemoveDirective(content))
  IN IF Raises(st.citations) THEN Thrown
     ELSE [content |-> Cleanup(st.pc),
           citations |-> SortCitations(st.citations),
           timestamp |-> now,
           explicitSentiment |-> ExplicitSentiment(content)]

\* What the run of processApiResponse did: the strategies entered and the
\* number of citations each pushed.
ExtractionTrace(content, apiSources) ==
  LET st == Extract(content, apiSources, RemoveDirective(content))
  IN [ran |-> st.ran, by |-> st.by]

(***************************************************************************)
(* The inputs the assembler is checked on: a raw text is an optional       *)
(* leading directive, body prose, and an optional trailing sources block.  *)

(***************************************************************************)
(* The sentiment scanner, runSentimentAnalysis.  Its regular expressions   *)
(* read characters, so a content is first spelled out as the items of its  *)
(* text: words (maximal runs of word characters, case-folded as the i flag *)
(* does), gaps (runs of n other characters), single joining spaces and     *)
(* line breaks.                                                            *)
(***************************************************************************)
Word(w) == [t |-> "word", w |-> w]
Gap(n) == [t |-> "gap", n |-> n]
Sp1 == [t |-> "sp1"]
Brk == [t |-> "brk"]

LowerCase(v) ==
  CASE v = "BULLISH" -> "bullish" [] v = "BEARISH" -> "bearish" [] OTHER -> "neutral"

RECURSIVE HostItems(_)
HostItems(host) ==
  IF Len(host) = 0 THEN <<>>
  ELSE <<Word(Head(host))>> \o (IF Len(host) > 1 THEN <<Gap(1)>> ELSE <<>>)
       \o HostItems(Tail(host))

UrlItems(u) ==
  (IF u.abs THEN <<Word("https"), Gap(3)>> ELSE <<>>)
  \o HostItems(u.host) \o <<Gap(1), Word("p")>>

TokenItems(t) ==
  CASE t.k = "w" -> <<Word(t.w)>>
    [] t.k = "dir" -> <<Word("sentiment"), Gap(1), Sp1, Word(LowerCase(t.v))>>
    [] t.k = "bold" -> <<Gap(2)>>
    [] t.k = "src" -> <<Word("sources")>> \o (IF t.colon THEN <<Gap(1)>> ELSE <<>>)
    [] t.k = "idx" ->
         (CASE t.form = "dot" -> <<Word("0"), Gap(1)>>
            [] t.form = "br" -> <<Gap(1), Word("0"), Gap(1)>>
            [] t.form = "colon" -> <<Word("0"), Gap(1)>>
            [] OTHER -> <<Word("0")>>)
    [] t.k = "url" -> UrlItems(t)
    [] t.k = "obj" -> <<Gap(2), Word("url"), Gap(3)>> \o UrlItems(t.url) \o <<Gap(2)>>
    [] OTHER -> <<>>

RECURSIVE Items(_)
Items(s) ==
  IF Len(s) = 0 THEN <<>>
  ELSE IF IsNL(Head(s)) THEN <<Brk>> \o Items(Tail(s))
  ELSE TokenItems(Head(s))
       \o (IF Len(s) > 1 /\ ~IsNL(s[2]) THEN <<Sp1>> ELSE <<>>)
       \o Items(Tail(s))

ItemLen(it) ==
  CASE it.t = "word" -> Len(it.w) [] it.t = "gap" -> it.n [] it.t = "sp1" -> 1
    [] OTHER -> 0

\* The number of characters strictly between items i and j.
RECURSIVE Dist(_, _, _)
Dist(items, i, j) ==
  IF j <= i + 1 THEN 0 ELSE ItemLen(items[i + 1]) + Dist(items, i + 1, j)

\* "." does not match a line break.
SameLine(items, i, j) == \A k \in i..j : items[k].t # "brk"

\* The words of phrase ph, one literal space apart, stand at item i.
PhraseAt(items, i, ph) ==
  /\ i >= 1
  /\ i + 2 * (Len(ph) - 1) <= Len(items)
  /\ \A k \in 1..Len(ph) :
        /\ items[i + 2 * (k - 1)].t = "word"
        /\ items[i + 2 * (k - 1)].w = ph[k]
        /\ k > 1 => items[i + 2 * k - 3].t = "sp1"

PhraseEnd(i, ph) == i + 2 * (Len(ph) - 1)

\* The words of the model's texts that begin with a shorter alternative of a
\* pattern: <<word, stem>>.
Prefixes ==
  {<<"falls", "fall">>, <<"breaking", "break">>, <<"increased", "increase">>,
   <<"climbed", "climb">>, <<"dropped", "drop">>}

\* A rule /\b(?:head)\b.{0,gap}\b(?:tail)\b/gi.  whole = FALSE: no \b after
\* the head, so the head may be the beginning of a longer word.  gap = -1: a
\* rule that is its head alone.  Alternatives are in the order of the pattern.
\* first: the words with which a match of the rule can begin.
Rule(name, head, whole, gap, tail, weight) ==
  [name |-> name, head |-> head, whole |-> whole, gap |-> gap, tail |-> tail,
   weight |-> weight,
   first |-> {head[k][1] : k \in 1..Len(head)}
             \cup (IF whole THEN {}
                   ELSE {pr[1] : pr \in {q \in Prefixes :
                                          \E k \in 1..Len(head) : head[k][1] = q[2]}})]

Singles(ws) == [i \in 1..Len(ws) |-> <<ws[i]>>]

Subjects ==
  Singles(<<"market", "markets", "price", "prices", "bitcoin", "btc", "ethereum", "eth">>)

Outlooks ==
  Singles(<<"sentiment", "outlook", "perspective", "trend", "market">>)

positivePatterns ==
  << Rule("Positive price movement", Subjects, TRUE, 30,
          Singles(<<"up", "higher", "rise", "rising", "surge", "surged", "gain",
                    "gained", "rally", "bullish", "positive">>), 1),
     Rule("Breaking resistance",
          Singles(<<"increase", "increased", "climb", "climbed", "break", "broke">>),
          FALSE, 15, <<<<"resistance">>, <<"key", "level">>, <<"support">>>>, 1),
     Rule("Bullish sentiment",
          Singles(<<"bull", "bullish", "uptrend", "strength", "strong", "positive",
                    "optimistic", "optimism">>), TRUE, 20, Outlooks, 1),
     Rule("General positive momentum",
          Singles(<<"outperform", "recover", "recovery", "rebound", "momentum">>),
          TRUE, -1, <<>>, 1) >>

negativePatterns ==
  << Rule("Negative price movement", Subjects, TRUE, 30,
          Singles(<<"down", "lower", "fall", "falling", "fell", "drop", "dropped",
                    "decline", "declined", "bearish", "negative">>), 1),
     Rule("Breaking support",
          Singles(<<"drop", "dropped", "fall", "fell", "sink", "sank">>),
          FALSE, 15, <<<<"below">>, <<"support">>, <<"key", "level">>>>, 1),
     Rule("Bearish sentiment",
          Singles(<<"bear", "bearish", "downtrend", "weakness", "weak", "negative",
                    "pessimistic", "pessimism">>), TRUE, 20, Outlooks, 1),
     Rule("General negative pressure",
          Singles(<<"underperform", "loss", "selloff", "pressure", "correction">>),
          TRUE, -1, <<>>, 1) >>

positiveStrongPatterns ==
  << Rule("Bull market", <<<<"bull", "market">>>>, TRUE, -1, <<>>, 3),
     Rule("Strong buy signal", <<<<"strong", "buy", "signal">>>>, TRUE, -1, <<>>, 3),
     Rule("Significant rally", <<<<"significant", "rally">>>>, TRUE, -1, <<>>, 3) >>

negativeStrongPatterns ==
  << Rule("Bear market", <<<<"bear", "market">>>>, TRUE, -1, <<>>, 3),
     Rule("Strong sell signal", <<<<"strong", "sell", "signal">>>>, TRUE, -1, <<>>, 3),
     Rule("Significant drop", <<<<"significant", "drop">>>>, TRUE, -1, <<>>, 3) >>

\* The order in which the rules of a polarity are applied.
PositiveRules == positivePatterns \o positiveStrongPatterns
NegativeRules == negativePatterns \o negativeStrongPatterns


\* The k-th alternative of the rule's head at item i: <<end, rest>>, end the
\* item of its last word (0: it does not stand there), rest the characters of
\* that word after the alternative.
HeadAlt(items, i, rule, k) ==
  LET h == rule.head[k]
  IN IF PhraseAt(items, i, h) THEN <<PhraseEnd(i, h), 0>>
     ELSE IF ~rule.whole /\ <<items[i].w, h[1]>> \in Prefixes
          THEN <<i, Len(items[i].w) - Len(h[1])>>
     ELSE <<0, 0>>

MaxOrZero(S) == IF S = {} THEN 0 ELSE Max(S)

\* ".{0,gap}" is greedy: the farthest item on the line, at most gap characters
\* after the head, where an alternative of the tail stands (0: none).  Every
\* item of a line is at least one character, so it is within gap + 1 items.
FarTail(items, e, rest, rule) ==
  MaxOrZero({j \in (e + 1)..Min({Len(items), e + 1 + rule.gap}) :
               /\ SameLine(items, e, j)
               /\ rest + Dist(items, e, j) <= rule.gap
               /\ \E k \in 1..Len(rule.tail) : PhraseAt(items, j, rule.tail[k])})

\* The item at which the first alternative of the tail that stands at item j
\* ends (0 for j = 0).
TailEnd(items, j, rule) ==
  IF j = 0 THEN 0
  ELSE PhraseEnd(j, rule.tail[Min({k \in 1..Len(rule.tail) :
                                      PhraseAt(items, j, rule.tail[k])})])

\* The item at which the match ends whose head ended as ha = <<end, rest>>.
EndAfter(items, rule, ha) ==
  IF ha[1] = 0 THEN 0
  ELSE IF rule.gap < 0 THEN ha[1]
  ELSE TailEnd(items, FarTail(items, ha[1], ha[2], rule), rule)

\* The item at which the match ends that begins at item i with the k-th
\* alternative of the head (0: there is none).
AltEnd(items, i, rule, k) == EndAfter(items, rule, HeadAlt(items, i, rule, k))

\* Alternatives are tried in their order.
FirstAltEnd(items, i, rule, good) ==
  IF good = {} THEN 0 ELSE AltEnd(items, i, rule, Min(good))

\* The item at which a match of the rule that begins at item i ends (0: no
\* match begins there).
MatchEnd(items, i, rule) ==
  IF items[i].t # "word" THEN 0
  ELSE IF items[i].w \notin rule.first THEN 0
  ELSE FirstAltEnd(items, i, rule,
                   {k \in 1..Len(rule.head) : AltEnd(items, i, rule, k) > 0})

\* content.match(pattern) with the g flag: the matches from left to right,
\* each search resuming after the previous match.
RECURSIVE Matches(_, _, _)
MatchTo(items, rule, i, e) ==
  <<[category |-> rule.name, weight |-> rule.weight, text |-> SubSeq(items, i, e)]>>
  \o Matches(items, rule, e + 1)

MatchesFrom(items, rule, starts) ==
  IF starts = {} THEN <<>>
  ELSE MatchTo(items, rule, Min(starts), MatchEnd(items, Min(starts), rule))

Matches(items, rule, p) ==
  MatchesFrom(items, rule, {i \in p..Len(items) : MatchEnd(items, i, rule) > 0})

\* The matches pushed by forEach over a list of rules, in order.
RECURSIVE AllMatches(_, _)
AllMatches(items, rules) ==
  IF Len(rules) = 0 THEN <<>>
  ELSE Matches(items, Head(rules), 1) \o AllMatches(items, Tail(rules))

\* Every match counted once, whatever its rule.
Weigh_Unweighted(ms) == Len(ms)

\* positiveCount += matches.length; positiveCount += weight * matches.length
RECURSIVE Weigh(_)
Weigh(ms) == IF Len(ms) = 0 THEN 0 ELSE Head(ms).weight + Weigh(Tail(ms))

\* positiveCount, negativeCount and the pushed matches.
Tally(pm, nm) ==
  [positive |-> Weigh(pm), negative |-> Weigh(nm),
   positiveMatches |-> pm, negativeMatches |-> nm]

ScoreItems(items) ==
  Tally(AllMatches(items, PositiveRules), AllMatches(items, NegativeRules))

Score(content) == ScoreItems(Items(content))

\* The first two matches of every category, in the order of the categories'
\* first matches, and of those the first eight.
RECURSIVE TopExamples(_, _)
TopExamples(ms, seen) ==
  IF Len(ms) = 0 THEN <<>>
  ELSE LET c == Head(ms).category
           n == Cardinality({i \in 1..Len(seen) : seen[i].category = c})
       IN (IF n < 2 THEN <<Head(ms)>> ELSE <<>>)
          \o TopExamples(Tail(ms), Append(seen, Head(ms)))

\* The examples, all of them.
Slice8_All(xs) == xs

\* flattenedPositives.slice(0, 8)
Slice8(xs) == SubSeq(xs, 1, Min({Len(xs), 8}))

\* The threshold with the neutral bias taken out.
Verdict_NoBias(positiveCount, negativeCount) ==
  IF positiveCount > negativeCount THEN "up"
  ELSE IF negativeCount > positiveCount THEN "down"
  ELSE "neutral"

\* let sentiment = 'neutral'; if (positiveCount > negativeCount + 1) ...
Verdict(positiveCount, negativeCount) ==
  IF positiveCount > negativeCount + 1 THEN "up"
  ELSE IF negativeCount > positiveCount + 1 THEN "down"
  ELSE "neutral"

\* What runSentimentAnalysis passes to setSentimentDetails.
CalculatedDetails(sc) ==
  [positive |-> sc.positive, negative |-> sc.negative,
   matches |-> [positive |-> Slice8(TopExamples(sc.positiveMatches, <<>>)),
                negative |-> Slice8(TopExamples(sc.negativeMatches, <<>>))],
   source |-> "calculated"]

\* The sentiment runSentimentAnalysis returns for the scores sc and the
\* details it stores (None: logOnly, it stores nothing).
Judge(sc, logOnly) ==
  [sentiment |-> Verdict(sc.positive, sc.negative),
   details |-> IF logOnly THEN None ELSE CalculatedDetails(sc)]

runSentimentAnalysis(content, logOnly) == Judge(Score(content), logOnly)

(***************************************************************************)
SeqsUpTo(S, n) == UNION {[1..m -> S] : m \in 0..n}

HostA == <<"coindesk", "com">>
HostB == <<"www", "markets", "businessinsider", "com">>
UrlA == Url(TRUE, HostA)
UrlB == Url(TRUE, HostB)
Text(toks) == [k |-> "text", toks |-> toks]

Directives == {<<>>, <<Dir("BULLISH"), NL>>, <<Dir("BEARISH")>>}

\* "btc", "[1]", "Sources", "sources:", ["url":"https://coindesk.com/p"], "\n"
BodyVocab ==
  {W("btc"), Idx("br", 1), Src(TRUE, FALSE), Src(FALSE, TRUE), Obj(UrlA), NL}

\* The lines of a sources block: "1. <url>", "[2] <url>", "1: <url>",
\* "[1] CoinDesk coindesk.com/p" and "[2] www.markets.businessinsider.com/p".
BlockLines ==
  {<<Idx("dot", 1), UrlA>>, <<Idx("br", 2), UrlB>>, <<Idx("colon", 1), UrlB>>,
   <<Idx("br", 1), W("CoinDesk"), Url(FALSE, HostA)>>,
   <<Idx("br", 2), Url(FALSE, HostB)>>}

Headings == {Src(TRUE, TRUE), Src(TRUE, FALSE)}

Block(heading, lines) ==
  <<NL, heading>> \o Flatten([i \in 1..Len(lines) |-> <<NL>> \o lines[i]])

Blocks(maxLines) ==
  {<<>>} \cup {Block(h, ls) : h \in Headings, ls \in SeqsUpTo(BlockLines, maxLines)}

ApiEntries ==
  {[url |-> UrlA, title |-> Text(<<W("CoinDesk")>>)],
   [url |-> UrlB, title |-> None],
   [url |-> None, title |-> None]}

ApiLists == SeqsUpTo(ApiEntries, MaxSources) \ {<<>>}

(***************************************************************************)
(* The application: React state, localStorage, the daily_summaries table   *)
(* and the runs of fetchNewsDigest.  A run reads React state through the   *)
(* closure of the render that created the function it was called from:     *)
(* the mount effect, the interval and the retry timers all call the        *)
(* fetchNewsDigest of the first render; the Force Generate button calls    *)
(* the one of the render on screen.  The clock counts days of 24 hours.    *)
(***************************************************************************)
MAX_RETRIES == 3
MAX_HISTORICAL_SUMMARIES == 30
CACHE_DURATION == 1
UPDATE_INTERVAL == 1

\* newsDigest?.explicitSentiment
Hint(d) == IF d = None THEN Undefined ELSE d.explicitSentiment

InitialDetails ==
  [positive |-> 0, negative |-> 0, matches |-> [positive |-> <<>>, negative |-> <<>>],
   source |-> "calculated"]

\* What a run reads of the state its render closes over: loading, retryCount,
\* newsDigest?.explicitSentiment and sentimentDetails.
Closure(l, rc, nd, sd) ==
  [loading |-> l, retryCount |-> rc, explicitSentiment |-> Hint(nd),
   sentimentDetails |-> sd]

\* The first render: useState(false), useState(0), useState(null), ...
FirstRender ==
  [loading |-> FALSE, retryCount |-> 0, explicitSentiment |-> Undefined,
   sentimentDetails |-> InitialDetails]

HostC == <<"www", "coingecko", "com">>
HostT == <<"www", "tradingview", "com">>

FALLBACK_DATA ==
  [content |->
  << W("the"), W("cryptocurrency"), W("market"), W("is"), W("showing"),
     W("resilience"), W("today"), W("with"), W("major"), W("assets"),
     W("maintaining"), W("their"), W("positions"), W("bitcoin"),
     W("continues"), W("to"), W("demonstrate"), W("strength"), W("above"),
     W("key"), W("support"), W("levels"), W("while"), W("ethereum"), W("s"),
     W("network"), W("activity"), W("remains"), W("robust"), W("market"),
     W("sentiment"), W("indicators"), W("suggest"), W("a"), W("cautiously"),
     W("optimistic"), W("outlook"), W("with"), W("institutional"),
     W("interest"), W("remaining"), W("steady"), Idx("br", 1),
     W("technical"), W("analysis"), W("points"), W("to"), W("potential"),
     W("consolidation"), W("phases"), W("for"), W("leading"),
     W("cryptocurrencies"), Idx("br", 2) >>,
   citations |->
     << Citation(1, Text(<<W("CoinGecko"), W("Market"), W("Analysis")>>),
                 Url(TRUE, HostC), [k |-> "favicon", host |-> HostC]),
        Citation(2, Text(<<W("TradingView"), W("Technical"), W("Analysis")>>),
                 Url(TRUE, HostT), [k |-> "favicon", host |-> HostT]) >>,
   timestamp |-> 0,
   explicitSentiment |-> Undefined]

\* !content: the content is the empty string.
IsEmptyString(content) ==
  Len(content) = 0 \/ (Len(content) = 1 /\ content[1].k = "sp")

\* analyzeMarketSentiment(content) in a render whose state is cl: the value
\* returned and what it passes to setSentimentDetails (None: it sets nothing).
Returned(scan) == [verdict |-> scan.sentiment, details |-> scan.details]

analyzeMarketSentiment(content, cl) ==
  IF IsEmptyString(content) THEN [verdict |-> "neutral", details |-> None]
  ELSE IF cl.explicitSentiment # Undefined
       THEN [verdict |-> cl.explicitSentiment,
             details |-> [cl.sentimentDetails EXCEPT !.source = "api"]]
  ELSE Returned(runSentimentAnalysis(content, FALSE))

\* The row storeSummary inserts: content, citations and timestamp.  Read
\* back, the row has no explicitSentiment.
ToRow(d) == [d EXCEPT !.explicitSentiment = Undefined]

\* startOfDay(new Date())
Day(t) == t

\* .order('timestamp', { ascending: false }): the rows newest first; rows
\* written within one tick are ordered by their insertion.
RECURSIVE NewestFirst(_, _)
NewestFirst(rows, left) ==
  IF left = {} THEN <<>>
  ELSE LET top == Max({rows[i].timestamp : i \in left})
           i == Max({j \in left : rows[j].timestamp = top})
       IN <<i>> \o NewestFirst(rows, left \ {i})

\* checkTodaysSummary: the newest row of today, None when there is none or
\* the query failed.
checkTodaysSummary(rows, now, ok) ==
  LET todays == {i \in 1..Len(rows) : Day(rows[i].timestamp) = Day(now)}
  IN IF ok /\ todays # {} THEN rows[NewestFirst(rows, todays)[1]] ELSE None

\* getCachedData without the test of the cache age.
getCachedData_NoExpiry(cached, now) ==
  IF cached # None THEN cached.data ELSE None

\* getCachedData
getCachedData(cached, now) ==
  IF cached # None /\ now - cached.timestamp < CACHE_DURATION THEN cached.data
  ELSE None

\* fetchHistoricalDigests: the rows newest first without the newest one, at
\* most MAX_HISTORICAL_SUMMARIES of them, every citation completed.
CompleteCitation(c) ==
  [number |-> c.number,
   title |-> IF c.title = EmptyStr THEN [k |-> "sourceN", n |-> c.number] ELSE c.title,
   url |-> IF c.url = EmptyStr THEN [k |-> "hash"] ELSE c.url,
   isCited |-> TRUE,
   favicon |-> c.favicon]

\* latestQuery: the id of the newest row, 0 (null) for an empty table.  The
\* id of a row is its place in the order of insertion.
LatestId(rows) ==
  IF Len(rows) = 0 THEN 0 ELSE NewestFirst(rows, 1..Len(rows))[1]

\* query: the rows newest first, at most MAX_HISTORICAL_SUMMARIES of them,
\* without the row latestId if there is a latestId.
HistoryQuery(rows, latestId) ==
  LET order == NewestFirst(rows, {i \in 1..Len(rows) : i # latestId})
  IN SubSeq(order, 1, Min({Len(order), MAX_HISTORICAL_SUMMARIES}))

\* processedDigests: the rows kept, every citation completed.
ProcessedDigests(rows, kept) ==
  [i \in 1..Len(kept) |->
     [rows[kept[i]] EXCEPT
        !.citations = [j \in 1..Len(rows[kept[i]].citations) |->
                         CompleteCitation(rows[kept[i]].citations[j])]]]

\* Both queries answered from the same table.
fetchHistoricalDigests(rows) ==
  ProcessedDigests(rows, HistoryQuery(rows, LatestId(rows)))

\* What the generation API answers.
TextBullish == <<Dir("BULLISH"), NL, W("btc"), W("down"), Idx("br", 1)>>
TextBearish == <<Dir("BEARISH")>>
TextPlain ==
  <<W("recovery"), W("recovery"), Idx("br", 1), NL, Src(TRUE, TRUE), NL, Idx("dot", 1), UrlA>>

SdkResponses ==
  { [text |-> TextBullish, sources |-> <<[url |-> UrlA, title |-> None]>>],
    [text |-> TextBearish, sources |-> <<>>] }

DirectResponses == {TextPlain}

\* A summary stored before the page was opened.
SeedRow ==
  [content |-> <<W("btc"), W("up"), W("recovery"), Idx("br", 1)>>,
   citations |-> <<Citation(1, Domain(<<"coindesk", "com">>), UrlA,
                            [k |-> "favicon", host |-> HostA])>>,
   timestamp |-> 0,
   explicitSentiment |-> Undefined]

Idle == [pc |-> "idle"]
Run(pc, force, cl, d) == [pc |-> pc, force |-> force, cl |-> cl, digest |-> d]

\* The words of the texts given to the scanner.
ScanVocab ==
  {W("btc"), W("up"), W("down"), W("bull"), W("bear"), W("market"),
   W("recovery"), W("loss"), W("falls"), W("support"), W("notwithstanding"), NL}

VARIABLES
  rawText,            \* the text given to processApiResponse
  apiSources,         \* the structured sources given to it
  digest,             \* the digest it returned, None before the call
  trace,              \* the strategies that call entered (ExtractionTrace)
  scanInput,          \* the content given to runSentimentAnalysis
  scanResult,         \* the evidence it stored and the value it returned
  loading, error, newsDigest, historicalDigests, retryCount, usingFallback,
  marketSentiment, sentimentDetails,      \* React state of App
  cache,              \* localStorage item newsDigestCache, None when absent
  db,                 \* the rows of daily_summaries, in insertion order
  runs,               \* the runs of fetchNewsDigest, each at an await
  timers,             \* retry timers set and not yet fired
  historyPending,     \* the mount effect's fetchHistoricalDigests is in flight
  now,                \* the clock
  nextInterval,       \* the time at which the interval timer fires next
  forces,             \* clicks on Force Generate so far
  resolved,           \* history: the call of analyzeMarketSentiment made by the
                      \* step just taken, None when it made none
  historyFetch,       \* a call of fetchHistoricalDigests followed query by query
  shownFrom,          \* history: where the newsDigest on display came from
  arg,                \* the argument of a function called on its own
  result,             \* what that call returned, None before the call
  summaries,          \* daily_summaries as the Edge Function sees it: the rows
                      \* in insertion order, timestamps in hours
  serve,              \* the invocations of the Edge Function's handler
  clock,              \* the time of the Edge Function, in hours
  overlap             \* history: the pairs of invocations that were in flight
                      \* at the same time

extractVars == <<rawText, apiSources, digest, trace>>
scanVars == <<scanInput, scanResult>>
reactVars ==
  <<loading, error, newsDigest, historicalDigests, retryCount, usingFallback,
    marketSentiment, sentimentDetails, shownFrom>>
appVars ==
  <<reactVars, cache, db, runs, timers, historyPending, now, nextInterval,
    forces, resolved, historyFetch>>
pureVars == <<arg, result>>
edgeVars == <<summaries, serve, clock, overlap>>
vars == <<extractVars, scanVars, appVars, pureVars, edgeVars>>

ExtractIdle == rawText = <<>> /\ apiSources = <<>> /\ digest = None /\ trace = None
ScanIdle == scanInput = <<>> /\ scanResult = None
PureIdle == arg = None /\ result = None
EdgeIdle ==
  /\ summaries = <<>> /\ serve = [i \in 1..MaxCalls |-> [pc |-> "idle"]]
  /\ clock = 0 /\ overlap = {}

\* useState(...): the state of the first render.
InitialState ==
  /\ loading = FALSE /\ error = Undefined /\ newsDigest = None
  /\ historicalDigests = <<>> /\ retryCount = 0 /\ usingFallback = FALSE
  /\ marketSentiment = "neutral" /\ sentimentDetails = InitialDetails
  /\ shownFrom = "nothing"

AppIdle ==
  /\ InitialState
  /\ cache = None /\ db = <<>> /\ runs = [r \in 1..MaxRuns |-> Idle]
  /\ timers = 0 /\ historyPending = FALSE /\ now = 0
  /\ nextInterval = UPDATE_INTERVAL /\ forces = 0 /\ resolved = None
  /\ historyFetch = [pc |-> "idle", latestId |-> 0]

\* Every raw text without structured sources, the shorter raw texts with
\* every list of structured sources, and the shorter raw texts under a
\* directive with the shorter lists.
InitExtract ==
  /\ \/ /\ \E d \in Directives, b \in SeqsUpTo(BodyVocab, MaxBody),
               t \in Blocks(MaxLines) : rawText = d \o b \o t
        /\ apiSources = <<>>
     \/ /\ \E b \in SeqsUpTo(BodyVocab, MaxBody - 1), t \in Blocks(MaxLines - 1) :
             rawText = b \o t
        /\ apiSources \in ApiLists
     \/ /\ \E d \in Directives \ {<<>>}, b \in SeqsUpTo(BodyVocab, MaxBody - 1),
               t \in Blocks(MaxLines - 1) : rawText = d \o b \o t
        /\ apiSources \in SeqsUpTo(ApiEntries, MaxSources - 1) \ {<<>>}
  /\ digest = None
  /\ trace = None
  /\ ScanIdle
  /\ AppIdle
  /\ PureIdle
  /\ EdgeIdle

\* const digest = await processApiResponse(rawText, apiSources)
Assemble ==
  /\ digest = None
  /\ digest' = processApiResponse(rawText, apiSources, 0)
  /\ trace' = ExtractionTrace(rawText, apiSources)
  /\ UNCHANGED <<rawText, apiSources, scanVars, appVars, pureVars, edgeVars>>

NextExtract == Assemble

SpecExtract == InitExtract /\ [][NextExtract]_vars

InitScan ==
  /\ scanInput \in SeqsUpTo(ScanVocab, MaxWords)
  /\ scanResult = None
  /\ ExtractIdle
  /\ AppIdle
  /\ PureIdle
  /\ EdgeIdle

\* runSentimentAnalysis(content, false)
Scan ==
  /\ scanResult = None
  /\ scanResult' = runSentimentAnalysis(scanInput, FALSE)
  /\ UNCHANGED <<scanInput, extractVars, appVars, pureVars, edgeVars>>

NextScan == Scan

SpecScan == InitScan /\ [][NextScan]_vars

(***************************************************************************)
(* The sentiment directive: every text of at most MaxDirective tokens, the *)
(* directive in several spellings and at every place, without structured   *)
(* sources.                                                                *)
(***************************************************************************)
\* "SENTIMENT: BULLISH", "sentiment: bearish", "Sentiment: Neutral",
\* "SENTIMENT: MIXED", "btc", "[1]", "\n"
DirectiveVocab ==
  {Dir("BULLISH"), Dir("bearish"), Dir("Neutral"), Dir("MIXED"),
   W("btc"), Idx("br", 1), NL}

InitDirective ==
  /\ rawText \in SeqsUpTo(DirectiveVocab, MaxDirective)
  /\ apiSources = <<>>
  /\ digest = None
  /\ trace = None
  /\ ScanIdle /\ AppIdle /\ PureIdle /\ EdgeIdle

SpecDirective == InitDirective /\ [][NextExtract]_vars

(***************************************************************************)
(* The scanner on longer texts: lines of five kinds, each kind repeated up *)
(* to MaxRepeat times, all of one polarity.  The j-th line of a kind is    *)
(* its ((j - 1) % 3 + 1)-th wording.                                    *)
(***************************************************************************)
Words(ws) == [i \in 1..Len(ws) |-> W(ws[i])]

PositiveLines ==
  << <<Words(<<"btc", "up">>), Words(<<"eth", "higher">>), Words(<<"prices", "rise">>)>>,
     <<Words(<<"climbed", "resistance">>), Words(<<"broke", "support">>),
       Words(<<"climbed", "resistance">>)>>,
     <<Words(<<"bull", "market">>), Words(<<"bull", "market">>), Words(<<"bull", "market">>)>>,
     <<Words(<<"recovery">>), Words(<<"rebound">>), Words(<<"momentum">>)>>,
     <<Words(<<"strong", "buy", "signal">>), Words(<<"strong", "buy", "signal">>),
       Words(<<"strong", "buy", "signal">>)>> >>

NegativeLines ==
  << <<Words(<<"btc", "down">>), Words(<<"eth", "lower">>), Words(<<"prices", "fell">>)>>,
     <<Words(<<"sank", "below">>), Words(<<"sink", "support">>), Words(<<"sank", "below">>)>>,
     <<Words(<<"bear", "market">>), Words(<<"bear", "market">>), Words(<<"bear", "market">>)>>,
     <<Words(<<"loss">>), Words(<<"selloff">>), Words(<<"correction">>)>>,
     <<Words(<<"strong", "sell", "signal">>), Words(<<"strong", "sell", "signal">>),
       Words(<<"strong", "sell", "signal">>)>> >>

\* n lines of one kind, each ended by a newline.
Repeated(wordings, n) ==
  Flatten([j \in 1..n |-> wordings[((j - 1) % 3) + 1] \o <<NL>>])

LongText(lines, counts) ==
  Flatten([kind \in 1..Len(lines) |-> Repeated(lines[kind], counts[kind])])

InitEvidence ==
  /\ \E lines \in {PositiveLines, NegativeLines},
        counts \in [1..5 -> 0..MaxRepeat] :
        scanInput = LongText(lines, counts)
  /\ scanResult = None
  /\ ExtractIdle /\ AppIdle /\ PureIdle /\ EdgeIdle

SpecEvidence == InitEvidence /\ [][NextScan]_vars

(***************************************************************************)
(* The markdown cleanup on its own: every text of at most MaxClean tokens  *)
(* is cleaned, and the cleaned text is cleaned again.                      *)
(***************************************************************************)
\* "x", "1.", "2.", "**", "\n"
CleanVocab == {W("x"), Idx("dot", 1), Idx("dot", 2), BOLD, NL}

InitClean ==
  /\ arg \in SeqsUpTo(CleanVocab, MaxClean)
  /\ result = None
  /\ ExtractIdle /\ ScanIdle /\ AppIdle /\ EdgeIdle

\* processedContent.replace(...).replace(...).replace(...), then the same
\* three replacements on what they returned.
CleanTwice ==
  /\ result = None
  /\ result' = [once |-> Cleanup(arg), twice |-> Cleanup(Cleanup(arg))]
  /\ UNCHANGED <<arg, extractVars, scanVars, appVars, edgeVars>>

NextClean == CleanTwice

SpecClean == InitClean /\ [][NextClean]_vars

(***************************************************************************)
(* getDomainName on its own: every absolute URL and every scheme-less      *)
(* string whose host has at most MaxLabels labels, and the empty string.   *)
(***************************************************************************)
Labels == {"www", "markets", "businessinsider", "example", "co", "uk"}

DomainArgs ==
  {EmptyStr} \cup
  {Url(abs, host) : abs \in BOOLEAN,
                    host \in SeqsUpTo(Labels, MaxLabels) \ {<<>>}}

InitDomain ==
  /\ arg \in DomainArgs
  /\ result = None
  /\ ExtractIdle /\ ScanIdle /\ AppIdle /\ EdgeIdle

\* getDomainName(url)
GetDomainName ==
  /\ result = None
  /\ result' = [name |-> getDomainName(arg)]
  /\ UNCHANGED <<arg, extractVars, scanVars, appVars, edgeVars>>

NextDomain == GetDomainName

SpecDomain == InitDomain /\ [][NextDomain]_vars

(***************************************************************************)
(* renderContent: a digest's content is split at its markers [N] and each  *)
(* marker is rendered as a link or as plain text.  arg holds the digest    *)
(* rendered and the newsDigest of the render.                              *)
(***************************************************************************)
\* citations?.find(c => c.number === number): the first one, None for undefined.
FindCitation(citations, number) ==
  LET I == {i \in 1..Len(citations) : citations[i].number = number}
  IN IF I = {} THEN None ELSE citations[Min(I)]

\* One part of content.split(/(\[\d+\])/): an <a> for a marker whose citation
\* has a url other than '#', else the text as it is.
RenderPart(part, digestCitations, current) ==
  LET own == IF IsMarker(part) THEN FindCitation(digestCitations, part.n) ELSE None
      citation ==
        IF own # None \/ ~IsMarker(part) \/ current = None THEN own
        ELSE FindCitation(current.citations, part.n)
  IN IF citation # None /\ citation.url # EmptyStr /\ citation.url # [k |-> "hash"]
     THEN [k |-> "a", number |-> part.n, href |-> citation.url,
           title |-> citation.title]
     ELSE [k |-> "text", part |-> part]

renderContent(content, digestCitations, current) ==
  [i \in 1..Len(content) |-> RenderPart(content[i], digestCitations, current)]

RenderVocab == {W("btc"), Idx("br", 1), Idx("br", 2)}

SourceOf(number, url) == Citation(number, Text(<<W("source")>>), url, EmptyStr)

CitationLists ==
  { <<>>, <<SourceOf(1, UrlA)>>, <<SourceOf(1, [k |-> "hash"])>>,
    <<SourceOf(1, UrlB), SourceOf(2, UrlA)>> }

\* The digests rendered: contents of up to MaxParts parts.
RenderedDigests ==
  { [content |-> c, citations |-> cs, timestamp |-> 0, explicitSentiment |-> Undefined] :
      c \in SeqsUpTo(RenderVocab, MaxParts), cs \in CitationLists }

\* renderDigest(newsDigest), or renderDigest(digest) for a digest of
\* historicalDigests while newsDigest is null or another digest.
InitRender ==
  /\ \/ \E d \in RenderedDigests : arg = [digest |-> d, newsDigest |-> d]
     \/ \E d \in RenderedDigests, cs \in CitationLists :
          arg = [digest |-> d,
                 newsDigest |-> [content |-> <<W("btc")>>, citations |-> cs,
                                 timestamp |-> 1, explicitSentiment |-> Undefined]]
     \/ \E d \in RenderedDigests : arg = [digest |-> d, newsDigest |-> None]
  /\ result = None
  /\ ExtractIdle /\ ScanIdle /\ AppIdle /\ EdgeIdle

RenderDigest ==
  /\ result = None
  /\ result' = [parts |-> renderContent(arg.digest.content, arg.digest.citations,
                                         arg.newsDigest)]
  /\ UNCHANGED <<arg, extractVars, scanVars, appVars, edgeVars>>

NextRender == RenderDigest

SpecRender == InitRender /\ [][NextRender]_vars

\* The page after its mount effect: fetchNewsDigest(false) has entered and
\* awaits checkTodaysSummary, fetchHistoricalDigests is in flight.
PageOpened ==
  /\ error = Undefined /\ newsDigest = None /\ historicalDigests = <<>>
  /\ retryCount = 0 /\ usingFallback = FALSE
  /\ marketSentiment = "neutral" /\ sentimentDetails = InitialDetails
  /\ shownFrom = "nothing"
  /\ loading = TRUE
  /\ runs = [r \in 1..MaxRuns |->
               IF r = 1 THEN Run("check", FALSE, FirstRender, None) ELSE Idle]
  /\ db \in {<<>>, <<SeedRow>>}
  /\ timers = 0 /\ historyPending = TRUE /\ now = 0
  /\ nextInterval = UPDATE_INTERVAL /\ forces = 0 /\ resolved = None
  /\ historyFetch = [pc |-> "idle", latestId |-> 0]
  /\ ExtractIdle /\ ScanIdle /\ PureIdle /\ EdgeIdle

\* The page is opened in a browser that holds no newsDigestCache item.
Init == PageOpened /\ cache = None

\* What the runs of fetchNewsDigest leave alone.
otherVars == <<extractVars, scanVars, pureVars, edgeVars, historyFetch>>

\* The runs of fetchNewsDigest that are past the loading guard.
InFlightRuns == {r \in 1..MaxRuns : runs[r] # Idle}

FreeSlot ==
  IF \E r \in 1..MaxRuns : runs[r] = Idle
  THEN Min({r \in 1..MaxRuns : runs[r] = Idle}) ELSE 0

\* fetchNewsDigest(forceGenerate) called in a render whose state is cl, up
\* to its first await.
Enter(force, cl) ==
  /\ ~cl.loading
  /\ FreeSlot > 0
  /\ runs' = [runs EXCEPT ![FreeSlot] =
                Run(IF force THEN "sdk" ELSE "check", force, cl, None)]
  /\ loading' = TRUE /\ error' = Undefined /\ usingFallback' = FALSE
  /\ resolved' = None
  /\ UNCHANGED <<newsDigest, shownFrom, historicalDigests, marketSentiment,
                 sentimentDetails, cache, db, historyPending, now, otherVars>>

\* setMarketSentiment(a.verdict) and the setSentimentDetails made by the call
\* that returned a.
SetSentiment(a, d, cl, assembled) ==
  /\ marketSentiment' = a.verdict
  /\ sentimentDetails' = IF a.details = None THEN sentimentDetails ELSE a.details
  /\ resolved' = [content |-> d.content, hint |-> cl.explicitSentiment,
                  own |-> d.explicitSentiment, verdict |-> a.verdict,
                  assembled |-> assembled]

\* setMarketSentiment(analyzeMarketSentiment(d.content)) in a run whose
\* closure is cl; assembled: d was assembled by this run.
Resolve(d, cl, assembled) ==
  SetSentiment(analyzeMarketSentiment(d.content, cl), d, cl, assembled)

\* setInterval(() => fetchNewsDigest(false), config.UPDATE_INTERVAL)
IntervalFires ==
  /\ now >= nextInterval
  /\ nextInterval' = nextInterval + UPDATE_INTERVAL
  /\ Enter(FALSE, FirstRender)
  /\ UNCHANGED <<retryCount, timers, forces>>

\* handleForceGenerate; the button is disabled while loading.
ForceGenerate ==
  /\ ~loading
  /\ forces < MaxForce
  /\ forces' = forces + 1
  /\ Enter(TRUE, Closure(loading, retryCount, newsDigest, sentimentDetails))
  /\ UNCHANGED <<retryCount, timers, nextInterval>>

\* setTimeout(() => { setRetryCount(prev => prev + 1); fetchNewsDigest(false) })
RetryTimer(cap) ==
  /\ timers > 0
  /\ retryCount < cap
  /\ timers' = timers - 1
  /\ retryCount' = retryCount + 1
  /\ Enter(FALSE, FirstRender)
  /\ UNCHANGED <<nextInterval, forces>>

RetryTimerFires == RetryTimer(MaxRetryCount)

\* The run ends: finally { setLoading(false) }.
Finish(r) ==
  /\ loading' = FALSE
  /\ runs' = [runs EXCEPT ![r] = Idle]

\* The run goes on to its next await.
Goto(r, pc) ==
  /\ runs' = [runs EXCEPT ![r].pc = pc]
  /\ resolved' = None
  /\ UNCHANGED <<reactVars, cache, db, timers>>

\* const digest = await processApiResponse(...); setNewsDigest(digest);
\* setCachedData(digest); then the run awaits storeSummary(digest).
Display(r, d) ==
  /\ newsDigest' = d
  /\ shownFrom' = "generation"
  /\ cache' = [data |-> d, timestamp |-> now]
  /\ runs' = [runs EXCEPT ![r].pc = "store", ![r].digest = d]
  /\ resolved' = None
  /\ UNCHANGED <<loading, error, historicalDigests, retryCount, usingFallback,
                 marketSentiment, sentimentDetails, db, timers>>

\* await checkTodaysSummary() returns.
CheckDone(r) ==
  /\ runs[r].pc = "check"
  /\ \E ok \in BOOLEAN :
       LET todaysSummary == checkTodaysSummary(db, now, ok)
       IN IF todaysSummary # None
          THEN /\ newsDigest' = todaysSummary
               /\ shownFrom' = "load"
               /\ cache' = [data |-> todaysSummary, timestamp |-> now]
               /\ Resolve(todaysSummary, runs[r].cl, FALSE)
               /\ Finish(r)
               /\ UNCHANGED <<error, historicalDigests, retryCount, usingFallback,
                              db, timers>>
          ELSE Goto(r, "sdk")
  /\ UNCHANGED <<historyPending, now, nextInterval, forces, otherVars>>

\* try { digest = await processApiResponse(...) ... } catch (aiSdkError) { ... }
SdkReturned(r, d) == IF d # Thrown THEN Display(r, d) ELSE Goto(r, "direct")

\* await generateText(...) returns a text and its sources, or throws.
SdkDone(r) ==
  /\ runs[r].pc = "sdk"
  /\ \/ \E resp \in SdkResponses :
          SdkReturned(r, processApiResponse(resp.text, resp.sources, now))
     \/ Goto(r, "direct")
  /\ UNCHANGED <<historyPending, now, nextInterval, forces, otherVars>>

\* await storeSummary(digest) returns: the insert, then fetchHistoricalDigests;
\* an error of the insert is caught and logged.  Then the sentiment is resolved.
StoreDone(r) ==
  /\ runs[r].pc = "store"
  /\ \/ /\ Len(db) < MaxRows
        /\ db' = Append(db, ToRow(runs[r].digest))
        /\ historicalDigests' = fetchHistoricalDigests(db')
     \/ UNCHANGED <<db, historicalDigests>>
  /\ Resolve(runs[r].digest, runs[r].cl, TRUE)
  /\ retryCount' = 0
  /\ usingFallback' = FALSE
  /\ Finish(r)
  /\ UNCHANGED <<error, newsDigest, shownFrom, cache, timers, historyPending, now,
                 nextInterval, forces, otherVars>>

\* catch (err) { ... } finally { setLoading(false) }
Catch(r) ==
  LET cachedData == getCachedData(cache, now)
      retry == cachedData = None /\ ~runs[r].force
               /\ runs[r].cl.retryCount < MAX_RETRIES
      shown == IF cachedData # None THEN cachedData ELSE FALLBACK_DATA
  IN /\ IF retry
        THEN /\ timers < MaxTimers
             /\ timers' = timers + 1
             /\ resolved' = None
             /\ UNCHANGED <<newsDigest, shownFrom, marketSentiment,
                            sentimentDetails, usingFallback, error>>
        ELSE /\ newsDigest' = shown
             /\ shownFrom' = IF cachedData # None THEN "cache" ELSE "fallback"
             /\ Resolve(shown, runs[r].cl, FALSE)
             /\ usingFallback' = TRUE
             /\ error' = IF cachedData # None
                         THEN "Using cached data from last successful update"
                         ELSE "Unable to fetch latest data. Showing backup content."
             /\ UNCHANGED timers
     /\ Finish(r)
     /\ UNCHANGED <<historicalDigests, retryCount, cache, db>>

DirectAssembled(r, d) == IF d # Thrown THEN Display(r, d) ELSE Catch(r)

\* The direct call's text assembled together with structured sources.
DirectReturned_WithSources(r, text) ==
  DirectAssembled(r, processApiResponse(text, <<[url |-> UrlA, title |-> None]>>, now))

DirectReturned(r, text) ==
  DirectAssembled(r, processApiResponse(text, <<>>, now))

\* await fetch(apiEndpoint, ...) returns a content, or the call fails.
DirectDone(r) ==
  /\ runs[r].pc = "direct"
  /\ \/ \E text \in DirectResponses : DirectReturned(r, text)
     \/ Catch(r)
  /\ UNCHANGED <<historyPending, now, nextInterval, forces, otherVars>>

\* The fetchHistoricalDigests() of the mount effect returns; its two queries
\* are taken as one step here, SpecHistory follows them one by one.
LoadHistory ==
  /\ historyPending
  /\ historyPending' = FALSE
  /\ historicalDigests' = fetchHistoricalDigests(db)
  /\ resolved' = None
  /\ UNCHANGED <<loading, error, newsDigest, shownFrom, retryCount, usingFallback,
                 marketSentiment, sentimentDetails, cache, db, runs, timers, now,
                 nextInterval, forces, otherVars>>

\* A day passes; an interval timer that is due fires first.
Tick ==
  /\ now < MaxTime
  /\ now < nextInterval
  /\ now' = now + 1
  /\ resolved' = None
  /\ UNCHANGED <<reactVars, cache, db, runs, timers, historyPending, nextInterval,
                 forces, otherVars>>

Next ==
  \/ IntervalFires
  \/ ForceGenerate
  \/ RetryTimerFires
  \/ \E r \in 1..MaxRuns : CheckDone(r)
  \/ \E r \in 1..MaxRuns : SdkDone(r)
  \/ \E r \in 1..MaxRuns : StoreDone(r)
  \/ \E r \in 1..MaxRuns : DirectDone(r)
  \/ LoadHistory
  \/ Tick

Spec == Init /\ [][Next]_vars

\* The page within the day it was opened: the clock stands, so the interval
\* timer does not come due.
NextDay ==
  \/ ForceGenerate
  \/ RetryTimerFires
  \/ \E r \in 1..MaxRuns : CheckDone(r)
  \/ \E r \in 1..MaxRuns : SdkDone(r)
  \/ \E r \in 1..MaxRuns : StoreDone(r)
  \/ \E r \in 1..MaxRuns : DirectDone(r)
  \/ LoadHistory

SpecDay == Init /\ [][NextDay]_vars

(***************************************************************************)
(* The page during an outage: the table is empty and stays so, and every   *)
(* call of the AI SDK and of the direct API fails.                         *)
(***************************************************************************)
InitOutage == Init /\ db = <<>>

\* await generateText(...) throws.
SdkFails(r) ==
  /\ runs[r].pc = "sdk"
  /\ Goto(r, "direct")
  /\ UNCHANGED <<historyPending, now, nextInterval, forces, otherVars>>

\* await fetch(apiEndpoint, ...) throws or answers with an error status.
DirectFails(r) ==
  /\ runs[r].pc = "direct"
  /\ Catch(r)
  /\ UNCHANGED <<historyPending, now, nextInterval, forces, otherVars>>

RetryDuringOutage == RetryTimer(MaxOutageRetries)

NextOutage ==
  \/ IntervalFires
  \/ ForceGenerate
  \/ RetryDuringOutage
  \/ \E r \in 1..MaxRuns : CheckDone(r)
  \/ \E r \in 1..MaxRuns : SdkFails(r)
  \/ \E r \in 1..MaxRuns : DirectFails(r)
  \/ LoadHistory
  \/ Tick

SpecOutage == InitOutage /\ [][NextOutage]_vars

\* One day of the outage, with no interval and no change of date.  An
\* earlier visit may have left a newsDigestCache item in localStorage
\* (setCachedData), on the same day or CACHE_DURATION before this visit.
LeftoverCache == [data |-> SeedRow, timestamp |-> 0]
StaleCache == [data |-> SeedRow, timestamp |-> 0 - CACHE_DURATION]

InitOutageDay ==
  /\ PageOpened /\ db = <<>>
  /\ cache \in {None, LeftoverCache, StaleCache}

NextOutageDay ==
  \/ ForceGenerate
  \/ RetryTimerFires
  \/ \E r \in 1..MaxRuns : CheckDone(r)
  \/ \E r \in 1..MaxRuns : SdkFails(r)
  \/ \E r \in 1..MaxRuns : DirectFails(r)
  \/ LoadHistory

SpecOutageDay == InitOutageDay /\ [][NextOutageDay]_vars

(***************************************************************************)
(* fetchHistoricalDigests query by query, while other writers (the Edge    *)
(* Function, the storeSummary of any open page) insert rows.  Each row     *)
(* carries its id, and each insert is later than the one before.           *)
(***************************************************************************)
StoredRow(id, timestamp) ==
  [id |-> id, content |-> <<W("btc"), W("up")>>, citations |-> <<>>,
   timestamp |-> timestamp, explicitSentiment |-> Undefined]

InitHistory ==
  /\ InitialState
  /\ cache = None /\ runs = [r \in 1..MaxRuns |-> Idle]
  /\ timers = 0 /\ historyPending = FALSE /\ now = 0
  /\ nextInterval = UPDATE_INTERVAL /\ forces = 0 /\ resolved = None
  /\ db \in {<<>>, <<StoredRow(1, 0)>>}
  /\ historyFetch = [pc |-> "idle", latestId |-> 0]
  /\ ExtractIdle /\ ScanIdle /\ PureIdle /\ EdgeIdle

\* What the steps of this specification leave alone.
beyondHistory ==
  <<loading, error, newsDigest, shownFrom, retryCount, usingFallback, marketSentiment,
    sentimentDetails, cache, runs, timers, historyPending, nextInterval, forces,
    resolved, extractVars, scanVars, pureVars, edgeVars>>

\* fetchHistoricalDigests() is called (by the mount effect, by storeSummary)
\* and awaits latestQuery.
FetchHistory ==
  /\ historyFetch.pc = "idle"
  /\ historyFetch' = [pc |-> "latest", latestId |-> 0]
  /\ UNCHANGED <<db, historicalDigests, now, beyondHistory>>

\* await latestQuery returns: latestError is thrown and caught, or the id of
\* the newest row is kept and the main query is awaited.
LatestQueried ==
  /\ historyFetch.pc = "latest"
  /\ \E latestError \in BOOLEAN :
       historyFetch' = IF latestError THEN [pc |-> "idle", latestId |-> 0]
                       ELSE [pc |-> "query", latestId |-> LatestId(db)]
  /\ UNCHANGED <<db, historicalDigests, now, beyondHistory>>

\* await query returns: error is thrown and caught, or
\* setHistoricalDigests(processedDigests).
HistoryQueried ==
  /\ historyFetch.pc = "query"
  /\ \E failed \in BOOLEAN :
       historicalDigests' =
         IF failed THEN historicalDigests
         ELSE ProcessedDigests(db, HistoryQuery(db, historyFetch.latestId))
  /\ historyFetch' = [pc |-> "idle", latestId |-> 0]
  /\ UNCHANGED <<db, now, beyondHistory>>

\* Another writer's insert into daily_summaries is committed.
RowInserted ==
  /\ Len(db) < MaxHistoryRows
  /\ now' = now + 1
  /\ db' = Append(db, StoredRow(Len(db) + 1, now'))
  /\ UNCHANGED <<historicalDigests, historyFetch, beyondHistory>>

NextHistory ==
  \/ FetchHistory
  \/ LatestQueried
  \/ HistoryQueried
  \/ RowInserted

SpecHistory == InitHistory /\ [][NextHistory]_vars

(***************************************************************************)
(* The Edge Function generate-daily-summary (index.ts).  The cron job, the *)
(* manual trigger and a direct call all invoke the same handler; each      *)
(* invocation runs from await to await, and invocations interleave at      *)
(* their awaits.  Time is counted in hours.                                *)
(***************************************************************************)
SIX_HOURS == 6

\* citations.push({ number: index + 1, ... }) for each of apiSources; an
\* apiSources that is not an array gives no citation.
EdgeCitations(sources) ==
  IF ~sources.array THEN <<>>
  ELSE [k \in 1..Len(sources.items) |-> [number |-> k, isCited |-> TRUE]]

\* if (!citations || citations.length === 0) throw: the validation, here
\* without the test.
Validated_Always(citations) == TRUE

Validated(citations) == Len(citations) # 0

\* A row of daily_summaries; by: the invocation that inserted it, 0 for a row
\* that was there before.
SummaryRow(timestamp, by, citations) ==
  [timestamp |-> timestamp, by |-> by, citations |-> citations]

\* A summary stored at 22:00 of the day before.
EarlierRow ==
  SummaryRow(0 - 2, 0, EdgeCitations([array |-> TRUE, items |-> <<"source">>]))

\* .gte('timestamp', sixHoursAgo).order('timestamp', { ascending: false })
\* .limit(1): the newest row not older than sixHoursAgo, None if there is none.
ExistingSummary(rows, sixHoursAgo) ==
  LET I == {k \in 1..Len(rows) : rows[k].timestamp >= sixHoursAgo}
  IN IF I = {} THEN None
     ELSE rows[CHOOSE k \in I : \A m \in I : rows[m].timestamp <= rows[k].timestamp]

\* The variables of the page, which the Edge Function does not touch.
pageVars == <<extractVars, scanVars, appVars, pureVars>>

InFlight(i) == serve[i].pc \in {"check", "generate", "insert"}

\* return new Response(JSON.stringify({ success: true, summary }), { status: 200 })
Respond(i, summary) ==
  serve' = [serve EXCEPT ![i].pc = "done", ![i].success = TRUE,
                         ![i].summary = summary, ![i].status = 200]

\* throw ...; catch (error) { return new Response(JSON.stringify({ success:
\* false, error }), { status: 500 }) }
Failed(invocation, thrown) ==
  [invocation EXCEPT !.pc = "done", !.success = FALSE, !.error = thrown,
                     !.status = 500]

Throw(i, thrown) == serve' = [serve EXCEPT ![i] = Failed(serve[i], thrown)]

InitEdge ==
  /\ summaries \in {<<>>, <<EarlierRow>>}
  /\ serve = [i \in 1..MaxCalls |-> [pc |-> "idle"]]
  /\ clock = 0
  /\ overlap = {}
  /\ ExtractIdle /\ ScanIdle /\ AppIdle /\ PureIdle

\* An invocation that has just received its request.
Started(pc) ==
  [pc |-> pc, now |-> clock, today |-> FALSE, digest |-> None,
   success |-> FALSE, summary |-> None, status |-> 0, error |-> "none",
   sources |-> 0]

\* serve(async (req) => { ... }): a request arrives; with an environment
\* variable missing the handler throws at once, else it reads the time and
\* awaits the query for an existing summary.
ServeRequest(i) ==
  /\ serve[i].pc = "idle"
  /\ \E env \in BOOLEAN :
       IF env
       THEN /\ serve' = [serve EXCEPT ![i] = Started("check")]
            /\ overlap' =
                 overlap \cup {{i, j} : j \in {k \in 1..MaxCalls : InFlight(k)}}
       ELSE /\ serve' = [serve EXCEPT ![i] =
                           Failed(Started("check"),
                                  "Missing required environment variables")]
            /\ UNCHANGED overlap
  /\ UNCHANGED <<summaries, clock, pageVars>>

\* The errors the query can answer with: none, PGRST116 ("no data found",
\* which the handler passes over) when no row matched, or another one.
CheckErrors(existingSummary) ==
  {"none", "other"} \cup (IF existingSummary = None THEN {"PGRST116"} ELSE {})

\* The query returns: an error that is thrown, an existing summary that is
\* returned to the caller, or nothing.  today: a summary of the current day
\* was in the table when the query ran.
ExistingChecked(i) ==
  /\ serve[i].pc = "check"
  /\ \E checkError \in CheckErrors(ExistingSummary(summaries, serve[i].now - SIX_HOURS)) :
       LET existingSummary == ExistingSummary(summaries, serve[i].now - SIX_HOURS)
           today == \E k \in 1..Len(summaries) :
                       summaries[k].timestamp \div 24 = serve[i].now \div 24
       IN IF checkError = "other" THEN Throw(i, "checkError")
          ELSE IF existingSummary # None
               THEN serve' = [serve EXCEPT ![i].pc = "done", ![i].success = TRUE,
                                           ![i].summary = existingSummary,
                                           ![i].status = 200,
                                           ![i].today = today]
          ELSE serve' = [serve EXCEPT ![i].pc = "generate", ![i].today = today]
  /\ UNCHANGED <<summaries, clock, overlap, pageVars>>

\* The sources generateText answers with: no array, or an array of up to
\* MaxEdgeSources sources.
ApiSourceLists ==
  {[array |-> FALSE, items |-> <<>>]} \cup
  {[array |-> TRUE, items |-> [k \in 1..n |-> "source"]] : n \in 0..MaxEdgeSources}

\* The citations are built and validated, the digest is stamped with the
\* time; sources: how many sources the API returned.
Validate(i, sources) ==
  IF Validated(EdgeCitations(sources))
  THEN serve' =
         [serve EXCEPT ![i].pc = "insert", ![i].sources = Len(sources.items),
                       ![i].digest = SummaryRow(clock, i, EdgeCitations(sources))]
  ELSE serve' =
         [serve EXCEPT ![i] =
            Failed([serve[i] EXCEPT !.sources = Len(sources.items)],
                   "citations are empty or corrupted")]

\* await generateText(...) returns or throws; a response without sources is
\* rejected; the digest is stamped with the time.
Generated(i) ==
  /\ serve[i].pc = "generate"
  /\ \/ Throw(i, "generateText")
     \/ \E sources \in ApiSourceLists : Validate(i, sources)
  /\ UNCHANGED <<summaries, clock, overlap, pageVars>>

\* await supabase.from('daily_summaries').insert([...]) returns.
Inserted(i) ==
  /\ serve[i].pc = "insert"
  /\ \E insertError \in BOOLEAN :
       IF insertError
       THEN Throw(i, "insertError") /\ UNCHANGED summaries
       ELSE /\ summaries' = Append(summaries, serve[i].digest)
            /\ Respond(i, serve[i].digest)
  /\ UNCHANGED <<clock, overlap, pageVars>>

\* An hour passes.
HourPasses ==
  /\ clock < MaxHour
  /\ clock' = clock + 1
  /\ UNCHANGED <<summaries, serve, overlap, pageVars>>

NextEdge ==
  \/ \E i \in 1..MaxCalls : ServeRequest(i)
  \/ \E i \in 1..MaxCalls : ExistingChecked(i)
  \/ \E i \in 1..MaxCalls : Generated(i)
  \/ \E i \in 1..MaxCalls : Inserted(i)
  \/ HourPasses

SpecEdge == InitEdge /\ [][NextEdge]_vars

\* The invocations that arrive within one hour: the handler's steps alone.
NextEdgeHour ==
  \/ \E i \in 1..MaxCalls : ServeRequest(i)
  \/ \E i \in 1..MaxCalls : ExistingChecked(i)
  \/ \E i \in 1..MaxCalls : Generated(i)
  \/ \E i \in 1..MaxCalls : Inserted(i)

SpecEdgeHour == InitEdge /\ [][NextEdgeHour]_vars

(***************************************************************************)
(* Properties of the assembler, checked under SpecExtract.                 *)
(***************************************************************************)
Assembled == digest # None /\ digest # Thrown

\* The parts of a raw text as a reader sees them: the sources block begins at
\* the first "Sources:" heading; its entries are the non-empty lines after it.
HeadingIndex(raw) == FirstOf({i \in 1..Len(raw) : raw[i].k = "src" /\ raw[i].colon})

BlockEntries(raw) ==
  SelectSeq(SplitLines(SubSeq(raw, HeadingIndex(raw) + 1, Len(raw))),
            LAMBDA l : Len(l) > 0)

\* An entry "N. <absolute url>", "[N] <absolute url>" or "N: <absolute url>".
UrlEntry(l) == Len(l) = 2 /\ l[1].k = "idx" /\ l[2].k = "url" /\ l[2].abs

\* An entry "[N] <title and/or domain text>" with no absolute URL in it.
TitledEntry(l) ==
  /\ Len(l) >= 2 /\ IsMarker(l[1])
  /\ \E j \in 2..Len(l) : l[j].k = "url"
  /\ \A j \in 2..Len(l) : l[j].k = "url" => ~l[j].abs

NonSpace(s) == SelectSeq(s, LAMBDA t : ~IsSpace(t))

\* The words and inline markers of a text.
Prose(s) ==
  SelectSeq(s, LAMBDA t : t.k = "w" \/ IsMarker(t) \/ (t.k = "src" /\ ~t.colon))

IsPrefix(a, b) == Len(a) <= Len(b) /\ SubSeq(b, 1, Len(a)) = a

Numbers(citations) == [i \in 1..Len(citations) |-> citations[i].number]

\* C4: in the digest returned by processApiResponse the citation numbers are
\* strictly ascending: sorted, and no two citations share a number.
C4_StrictlyAscending ==
  Assembled =>
    \A i \in 1..(Len(digest.citations) - 1) :
       digest.citations[i].number < digest.citations[i + 1].number

\* C5: with N structured sources the digest has exactly N citations, the i-th
\* numbered i and carrying the url of the i-th source ("" when it has none),
\* whatever markers, sources block or url objects the raw text holds.
C5_StructuredSourcesPrecedence ==
  (Assembled /\ Len(apiSources) > 0) =>
    /\ Len(digest.citations) = Len(apiSources)
    /\ \A i \in 1..Len(apiSources) :
          /\ digest.citations[i].number = i
          /\ digest.citations[i].url =
               (IF apiSources[i].url = None THEN EmptyStr ELSE apiSources[i].url)

\* A digest built from two structured sources although the raw text ends in a
\* sources block with a URL line of its own.
C5_Witness ==
  /\ Assembled /\ Len(apiSources) = 2
  /\ HeadingIndex(rawText) > 0
  /\ \E i \in 1..Len(BlockEntries(rawText)) : UrlEntry(BlockEntries(rawText)[i])

\* C6: the citations of a digest come from one strategy; the sources-block
\* strategy is entered only without structured sources, the titled-section
\* strategy only if the block gave no citation, the url-object strategy only
\* if no earlier strategy gave one.
C6_StrategyChainExclusive ==
  Assembled =>
    /\ Cardinality({s \in DOMAIN trace.by : trace.by[s] > 0}) <= 1
    /\ Len(digest.citations) =
         trace.by["api"] + trace.by["block"] + trace.by["section"] + trace.by["inline"]
    /\ "block" \in trace.ran => Len(apiSources) = 0
    /\ "section" \in trace.ran => ("block" \in trace.ran /\ trace.by["block"] = 0)
    /\ "inline" \in trace.ran =>
         /\ {"block", "section"} \subseteq trace.ran
         /\ trace.by["block"] = 0 /\ trace.by["section"] = 0

\* The last strategy of the chain was reached and is the one that produced
\* the citations.
C6_Witness ==
  Assembled /\ "inline" \in trace.ran /\ trace.by["inline"] > 0

\* C7 (as claimed): a trailing "Sources:" section whose entries are
\* "[N] <title and/or domain text>" gives one citation per entry, numbered N.
C7_TitledSectionExtracted ==
  (/\ Assembled /\ Len(apiSources) = 0
   /\ HeadingIndex(rawText) > 0
   /\ \A i \in 1..(HeadingIndex(rawText) - 1) : rawText[i].k # "src"
   /\ Len(BlockEntries(rawText)) > 0
   /\ \A i \in 1..Len(BlockEntries(rawText)) : TitledEntry(BlockEntries(rawText)[i]))
  => /\ trace.by["block"] = 0
     /\ Len(digest.citations) = Len(BlockEntries(rawText))
     /\ \A i \in 1..Len(BlockEntries(rawText)) :
           \E j \in 1..Len(digest.citations) :
              digest.citations[j].number = BlockEntries(rawText)[i][1].n

\* The sources block of a text begins at the first heading: the word
\* "Sources", with or without its colon, that ends its line.
BlockStart(raw) ==
  FirstOf({i \in 1..Len(raw) :
             raw[i].k = "src" /\ (i = Len(raw) \/ IsNL(raw[i + 1]))})

\* C8 (as claimed): the words and inline markers that stand before the
\* sources block (the whole text when there is none) are still in the
\* content, in order, also when the prose holds the word "Sources".
C8_ProsePreserved ==
  Assembled =>
    LET raw == IF sentimentMatch(rawText) THEN Tail(rawText) ELSE rawText
        before == IF BlockStart(raw) = 0 THEN raw
                  ELSE SubSeq(raw, 1, BlockStart(raw) - 1)
    IN IsPrefix(Prose(before), Prose(digest.content))

\* The case of C9: a leading directive, body prose, and a "Sources:" block
\* whose entries are all an index token and an absolute URL.
C9_Case ==
  /\ Assembled /\ Len(apiSources) = 0
  /\ sentimentMatch(rawText)
  /\ HeadingIndex(rawText) > 0
  /\ Len(BlockEntries(rawText)) > 0
  /\ \A i \in 1..Len(BlockEntries(rawText)) : UrlEntry(BlockEntries(rawText)[i])

DerivedDomainOf(url) ==
  IF url = UrlA THEN Domain(<<"coindesk", "com">>)
  ELSE Domain(<<"businessinsider", "com">>)

C10_GracefulDegradation ==
  (digest # None /\ Len(apiSources) = 0) =>
    /\ digest # Thrown
    /\ (\A s \in DOMAIN trace.by : trace.by[s] = 0) => digest.citations = <<>>
    /\ rawText = <<>> =>
         /\ digest.content = <<>> /\ digest.citations = <<>>
         /\ digest.explicitSentiment = Undefined

\* A digest was returned although new URL threw while a title was derived:
\* the title is the unparsed text itself.
C10_Witness ==
  /\ Assembled /\ Len(apiSources) = 0
  /\ \E i \in 1..Len(digest.citations) : digest.citations[i].title.k = "url"

(***************************************************************************)
(* Properties of the scanner, checked under SpecScan.                      *)
(***************************************************************************)
\* C3: without an explicit hint the verdict is up exactly when
\* positive > negative + 1, down exactly when negative > positive + 1 and
\* neutral in every other case.
C3_NeutralBiasThreshold ==
  scanResult # None =>
    LET pos == scanResult.details.positive
        neg == scanResult.details.negative
    IN /\ pos >= 0 /\ neg >= 0
       /\ scanResult.sentiment = "up" <=> pos > neg + 1
       /\ scanResult.sentiment = "down" <=> neg > pos + 1
       /\ scanResult.sentiment = "neutral" <=> (pos <= neg + 1 /\ neg <= pos + 1)

\* Both polarities scored and one point apart: the verdict is neutral.
C3_Witness ==
  /\ scanResult # None
  /\ scanResult.details.negative > 0
  /\ scanResult.details.positive = scanResult.details.negative + 1
  /\ scanResult.sentiment = "neutral"
(***************************************************************************)
(* Sentiment resolution in fetchNewsDigest (specification Spec).            *)
(***************************************************************************)

\* A call of analyzeMarketSentiment has just returned.
Resolved == resolved # None

\* C1: explicit sentiment precedence.  Whenever analyzeMarketSentiment is
\* invoked while the digest it reads (the newsDigest of its render) carries an
\* explicit hint H, the verdict it returns is H, for every content, the empty
\* string included.
C1_ExplicitSentimentPrecedence ==
  (Resolved /\ resolved.hint # Undefined) => resolved.verdict = resolved.hint

\* C2: two-step assemble-then-resolve contract.  When fetchNewsDigest has
\* assembled a digest D and resolves its sentiment, the hint used is D's own
\* explicitSentiment: if D carries H the displayed marketSentiment becomes H,
\* and if D carries none the verdict is computed from D.content.
C2_ResolveUsesAssembledHint ==
  (Resolved /\ resolved.assembled) =>
     /\ resolved.hint = resolved.own
     /\ marketSentiment = resolved.verdict
     /\ resolved.own # Undefined => marketSentiment = resolved.own
     /\ resolved.own = Undefined =>
          marketSentiment = runSentimentAnalysis(resolved.content, TRUE).sentiment


(***************************************************************************)
(* The markdown cleanup (specification SpecClean).                         *)
(***************************************************************************)
Cleaned == result # None /\ "once" \in DOMAIN result

\* C11: idempotence of normalization.  Applying the markdown cleanup to its
\* own output gives the same text, for every input text, lines that begin
\* with two ordinal markers in a row ("1. 2. x") included.
C11_CleanupIdempotent == Cleaned => result.twice = result.once

(***************************************************************************)
(* The sentiment directive (specification SpecDirective).                  *)
(***************************************************************************)
\* The spellings of the three values of a directive.
Spelled ==
  [up |-> {"BULLISH", "bullish", "Bullish"},
   down |-> {"BEARISH", "bearish", "Bearish"},
   neutral |-> {"NEUTRAL", "neutral", "Neutral"}]

\* The sentiment the text starts with a directive for, Undefined if it does
\* not start with one.
LeadingDirective(raw) ==
  IF Len(raw) = 0 \/ raw[1].k # "dir" THEN Undefined
  ELSE IF \E m \in DOMAIN Spelled : raw[1].v \in Spelled[m]
       THEN CHOOSE m \in DOMAIN Spelled : raw[1].v \in Spelled[m]
  ELSE Undefined

DirectiveCount(s) == Cardinality({i \in 1..Len(s) : s[i].k = "dir"})

\* C12: sentiment directive detection.  A directive, in any letter case, is
\* detected only at the very start of rawText; BULLISH maps to up, BEARISH to
\* down and NEUTRAL to neutral, and the directive is removed from content.
\* When rawText does not start with the directive, explicitSentiment is
\* undefined and no text is removed for it.
C12_DirectiveDetection ==
  Assembled =>
    /\ digest.explicitSentiment = LeadingDirective(rawText)
    /\ IF LeadingDirective(rawText) # Undefined
       THEN /\ DirectiveCount(digest.content) = DirectiveCount(rawText) - 1
            /\ Prose(digest.content) = Prose(Tail(rawText))
       ELSE /\ DirectiveCount(digest.content) = DirectiveCount(rawText)
            /\ Prose(digest.content) = Prose(rawText)

\* A lower-case directive leads a text that holds a second directive.
C12_Witness ==
  /\ Assembled
  /\ Len(rawText) = 3 /\ rawText[1] = Dir("bearish") /\ rawText[3].k = "dir"
  /\ digest.explicitSentiment = "down"
  /\ DirectiveCount(digest.content) = 1

(***************************************************************************)
(* Citations (specification SpecExtract).                                  *)
(***************************************************************************)
\* An absolute URL, or the sentinel "#".
AbsoluteOrSentinel(url) == (url.k = "url" /\ url.abs) \/ url.k = "sharp"

\* C13: citation title and url well-formedness.  Every citation of a digest
\* returned by processApiResponse has a non-empty title and a url that is an
\* absolute URL or the "#" sentinel, citations built from an apiSources entry
\* without title and url included.
C13_CitationsWellFormed ==
  Assembled =>
    \A i \in 1..Len(digest.citations) :
       /\ digest.citations[i].title # EmptyStr
       /\ AbsoluteOrSentinel(digest.citations[i].url)

(***************************************************************************)
(* getDomainName (specification SpecDomain).                               *)
(***************************************************************************)
Named == result # None /\ "name" \in DOMAIN result

\* The labels of a hostname without a leading "www.".
WithoutWww(h) == IF Len(h) > 1 /\ h[1] = "www" THEN SubSeq(h, 2, Len(h)) ELSE h

\* C14: domain-naming rule.  For a parseable URL getDomainName drops a leading
\* "www." and returns the last two labels, except that it returns
\* businessinsider.<last label> when the first two remaining labels are
\* markets and businessinsider; with fewer than two labels it returns the
\* hostname; an unparseable string is returned unchanged.
C14_DomainNaming ==
  Named =>
    IF arg.k = "url" /\ arg.abs
    THEN LET h == WithoutWww(arg.host)
             n == Len(h)
         IN IF n < 2 THEN result.name = Domain(arg.host)
            ELSE IF h[1] = "markets" /\ h[2] = "businessinsider"
                 THEN result.name = Domain(<<"businessinsider", h[n]>>)
            ELSE result.name = Domain(<<h[n - 1], h[n]>>)
    ELSE result.name = arg

\* www.markets.businessinsider gives businessinsider.businessinsider: the
\* prefix is dropped before the special case is looked for.
C14_Witness ==
  /\ Named
  /\ arg = Url(TRUE, <<"www", "markets", "businessinsider">>)
  /\ result.name = Domain(<<"businessinsider", "businessinsider">>)

(***************************************************************************)
(* The scores of the scanner (specification SpecScan).                     *)
(***************************************************************************)
Scanned == scanResult # None

\* The number of matches of the rules in the scanned content.
MatchCount(rules) == Len(AllMatches(Items(scanInput), rules))

\* C15: weighted scoring.  For each polarity the score is the number of
\* matches of the regular rules plus 3 times the number of matches of the
\* strong rules; rules are counted independently, so "bull market", matched
\* by a regular and by a strong rule, contributes to both.
C15_WeightedScoring ==
  Scanned =>
    /\ scanResult.details.positive =
         MatchCount(positivePatterns) + 3 * MatchCount(positiveStrongPatterns)
    /\ scanResult.details.negative =
         MatchCount(negativePatterns) + 3 * MatchCount(negativeStrongPatterns)
    /\ scanInput = <<W("bull"), W("market")>> => scanResult.details.positive = 4
    /\ scanInput = <<W("bear"), W("market")>> => scanResult.details.negative = 4

\* "bull market" was scanned: one regular match and one strong match.
C15_Witness ==
  /\ Scanned
  /\ scanInput = <<W("bull"), W("market")>>
  /\ scanResult.details.positive = 4
  /\ MatchCount(positivePatterns) = 1 /\ MatchCount(positiveStrongPatterns) = 1

(***************************************************************************)
(* The evidence stored by the resolver (specification Spec).               *)
(***************************************************************************)
\* The scores and samples the scanner computes for a content.
Evidence(content) == runSentimentAnalysis(content, FALSE).details

\* C16: evidence populated under an explicit hint.  After the resolver has run
\* on content C with an explicit hint present, the stored evidence has source
\* api, and its scores and samples are those the scanner computes for C, not
\* those left over from a previously resolved digest.
C16_EvidenceUnderHint ==
  (Resolved /\ resolved.hint # Undefined) =>
     /\ sentimentDetails.source = "api"
     /\ sentimentDetails.positive = Evidence(resolved.content).positive
     /\ sentimentDetails.negative = Evidence(resolved.content).negative
     /\ sentimentDetails.matches = Evidence(resolved.content).matches

(***************************************************************************)
(* The evidence samples (specification SpecEvidence).                      *)
(***************************************************************************)
\* xs is ys with some elements left out.
RECURSIVE IsSubsequence(_, _)
IsSubsequence(xs, ys) ==
  IF xs = <<>> THEN TRUE
  ELSE IF ys = <<>> THEN FALSE
  ELSE IF Head(xs) = Head(ys) THEN IsSubsequence(Tail(xs), Tail(ys))
  ELSE IsSubsequence(xs, Tail(ys))

\* The samples hold at most 2 of each category and at most 8 in all, and are
\* in the order of the matches pushed for the rules.
Capped(samples, rules) ==
  /\ Len(samples) <= 8
  /\ \A i \in 1..Len(samples) :
        Cardinality({j \in 1..Len(samples) :
                       samples[j].category = samples[i].category}) <= 2
  /\ IsSubsequence(samples, AllMatches(Items(scanInput), rules))

\* C17: evidence sample caps.  In the evidence stored by a calculated resolve
\* each polarity's sample list holds at most 2 samples per rule category and
\* at most 8 samples in all, in the order in which their categories and
\* matches were encountered.
C17_EvidenceSampleCaps ==
  Scanned =>
    /\ Capped(scanResult.details.matches.positive, PositiveRules)
    /\ Capped(scanResult.details.matches.negative, NegativeRules)

\* Both caps cut: a category has three matches and more than eight samples
\* pass the cap of two.
C17_Witness ==
  /\ Scanned
  /\ Len(scanResult.details.matches.positive) = 8
  /\ scanResult.details.positive >= 3 * 3 + 3 * 4
  /\ scanResult.details.matches.positive[1].text # scanResult.details.matches.positive[2].text

(***************************************************************************)
(* The bracketed-url strategy (specification SpecExtract).                 *)
(***************************************************************************)
\* The bracketed url objects of a text, in order of occurrence.
UrlObjects(s) == SelectSeq(s, LAMBDA t : t.k = "obj")

\* C18: bracketed-url strategy numbering.  When no earlier strategy produced
\* a citation and rawText contains k bracketed single-key url objects, the
\* digest has k citations numbered 1..k in order of occurrence, each with the
\* derived domain of its url as title, and none of the k occurrences remains
\* in content.
C18_InlineNumbering ==
  (/\ Assembled /\ Len(apiSources) = 0
   /\ trace.by["block"] = 0 /\ trace.by["section"] = 0)
  => /\ Len(digest.citations) = Len(UrlObjects(rawText))
     /\ \A i \in 1..Len(digest.citations) :
           /\ digest.citations[i].number = i
           /\ digest.citations[i].url = UrlObjects(rawText)[i].url
           /\ digest.citations[i].title = DerivedDomainOf(digest.citations[i].url)
     /\ UrlObjects(digest.content) = <<>>

(***************************************************************************)
(* The Edge Function (specification SpecEdge).                             *)
(***************************************************************************)
\* Invocation i has inserted a row.
HasInserted(i) == \E k \in 1..Len(summaries) : summaries[k].by = i

\* C19: no duplicate summaries under multiple triggers.  Of two or more
\* invocations of the Edge Function that overlap in time, at most one inserts
\* a row into daily_summaries.
C19_NoDuplicateSummaries ==
  \A i, j \in 1..MaxCalls :
     (i # j /\ {i, j} \in overlap) => ~(HasInserted(i) /\ HasInserted(j))

\* The check of invocation i returned without an error.
Checked(i) ==
  serve[i].pc \in {"generate", "insert"}
  \/ (serve[i].pc = "done" /\ (serve[i].success \/ serve[i].digest # None))

\* C20: the existing-summary check is per day.  The Edge Function calls the
\* generation API and inserts a row only if no summary exists for the current
\* day; if one exists, whatever its age in hours, the function returns it with
\* success = true and inserts nothing.
C20_CheckIsPerDay ==
  \A i \in 1..MaxCalls :
     (Checked(i) /\ serve[i].today) =>
        /\ serve[i].pc = "done"
        /\ serve[i].success
        /\ serve[i].digest = None
        /\ serve[i].summary # None
        /\ serve[i].summary.timestamp \div 24 = serve[i].now \div 24
        /\ ~HasInserted(i)

(***************************************************************************)
(* Properties of what the page stores and displays, checked under Spec.    *)
(***************************************************************************)
\* The step in which the storeSummary of run r inserts its row, and the one
\* in which run r displays the row checkTodaysSummary read.
Stored(r) == runs[r].pc = "store" /\ Len(db') = Len(db) + 1
Reloaded(r) == runs[r].pc = "check" /\ runs'[r] = Idle

SameDigest(a, b) ==
  /\ a.content = b.content
  /\ a.citations = b.citations
  /\ a.timestamp = b.timestamp
  /\ a.explicitSentiment = b.explicitSentiment

\* C29: the row storeSummary writes equals the digest in content,
\* citations, timestamp and explicitSentiment, and checkTodaysSummary hands
\* back a row of the table as it is, so a digest read back equals the digest
\* written and is resolved under the same explicit hint.
C29_PersistenceRoundTrip ==
  [][\A r \in 1..MaxRuns :
       /\ Stored(r) => SameDigest(db'[Len(db')], runs[r].digest)
       /\ Reloaded(r) =>
             /\ \E k \in 1..Len(db) : SameDigest(newsDigest', db[k])
             /\ resolved'.own = newsDigest'.explicitSentiment]_vars

\* A digest assembled with an explicit hint was stored, and a later run has
\* read it back and displays it without the hint.
C29_ReadBack ==
  /\ Len(db) > 0
  /\ newsDigest = db[Len(db)]
  /\ newsDigest.content = Cleanup(RemoveDirective(TextBullish))
  /\ newsDigest.explicitSentiment = Undefined
  /\ resolved # None /\ ~resolved.assembled /\ resolved.content = newsDigest.content
  /\ resolved.hint = Undefined

\* C30: once a run of fetchNewsDigest has finished and none is in progress,
\* usingFallback is true exactly when error is non-null, and exactly when the
\* digest on display came from the cache or from FALLBACK_DATA and not from
\* a successful load or generation.
C30_FallbackFlagAndError ==
  InFlightRuns = {} =>
    /\ usingFallback <=> error # Undefined
    /\ usingFallback <=> shownFrom \in {"cache", "fallback"}

(***************************************************************************)
(* The text under structured sources, checked under SpecExtract.           *)
(***************************************************************************)
\* The "Sources" headings, urls and bracketed url objects of a text, in order.
SourceMarks(s) == SelectSeq(s, LAMBDA t : t.k \in {"src", "url", "obj"})

\* C28: with structured sources no text strategy runs and nothing is
\* stripped from the text: content is the markdown cleanup of the raw text
\* without its directive, and the "Sources" headings, urls and bracketed url
\* objects of the raw text are all still in content.
C28_TextUntouchedUnderSources ==
  (Assembled /\ Len(apiSources) > 0) =>
    /\ trace.ran = {"api"}
    /\ \A st \in {"block", "section", "inline"} : trace.by[st] = 0
    /\ digest.content = Cleanup(RemoveDirective(rawText))
    /\ SourceMarks(digest.content) = SourceMarks(rawText)

\* A digest built from structured sources whose raw text opens with a
\* directive, holds a bracketed url object and ends in a sources block.
C28_Witness ==
  /\ Assembled /\ Len(apiSources) > 0
  /\ Len(rawText) > 0 /\ rawText[1].k = "dir"
  /\ digest.explicitSentiment # Undefined
  /\ \E i \in 1..Len(rawText) : rawText[i].k = "obj"
  /\ HeadingIndex(rawText) > 0
  /\ Len(SourceMarks(digest.content)) >= 3

(***************************************************************************)
(* Properties of the page during an outage, checked under SpecOutage.      *)
(***************************************************************************)
\* C21: while fetches keep failing with no cached digest and no forced
\* generation, at most MAX_RETRIES retries are scheduled: a retry timer is
\* pending only while fewer than MAX_RETRIES retries have fired.
C21_BoundedRetries == timers > 0 => retryCount < MAX_RETRIES

(***************************************************************************)
(* Properties of the runs of fetchNewsDigest, checked under Spec.          *)
(***************************************************************************)
\* C22: at any time at most one run of fetchNewsDigest is past its loading
\* guard: a call made while another run is in progress starts no run.
C22_SingleFetchInFlight == Cardinality(InFlightRuns) <= 1

\* The step in which run r leaves the direct call through catch (err).
Caught(r) == runs[r].pc = "direct" /\ runs'[r] = Idle

\* The cache item was written less than CACHE_DURATION ago.
FreshCache == cache # None /\ now - cache.timestamp < CACHE_DURATION

\* C23: when a fetch fails, a cached digest written less than CACHE_DURATION
\* before is displayed with usingFallback = true and the cache message and no
\* retry is scheduled; an older cached digest is not displayed: the failure
\* either schedules a retry and leaves the display alone, or displays
\* FALLBACK_DATA.
C23_CacheFallback ==
  [][\A r \in 1..MaxRuns :
       Caught(r) =>
         IF FreshCache
         THEN /\ newsDigest' = cache.data
              /\ usingFallback'
              /\ error' = "Using cached data from last successful update"
              /\ timers' = timers
         ELSE \/ /\ timers' = timers + 1
                 /\ UNCHANGED <<newsDigest, usingFallback, error>>
              \/ /\ timers' = timers
                 /\ newsDigest' = FALLBACK_DATA
                 /\ usingFallback'
                 /\ error' = "Unable to fetch latest data. Showing backup content."]_vars

\* A failed fetch has displayed the cached digest.
C23_Witness ==
  /\ FreshCache
  /\ InFlightRuns = {}
  /\ newsDigest = cache.data
  /\ usingFallback
  /\ error = "Using cached data from last successful update"

\* A failed fetch found a cache item that was too old.
C23_StaleCacheSeen ==
  /\ cache # None /\ ~FreshCache
  /\ timers > 0
  /\ InFlightRuns = {}

(***************************************************************************)
(* The order of the API calls within a run, checked under SpecDay.         *)
(***************************************************************************)
\* The step in which run r starts the direct call, and the one in which the
\* direct call's digest is displayed.
DirectStarted(r) == runs[r].pc # "direct" /\ runs'[r].pc = "direct"
DirectDisplayed(r) == runs[r].pc = "direct" /\ runs'[r].pc = "store"

\* The step sets a retry timer, or raises the fallback flag or an error
\* message: the handling of catch (err).
FailureHandled ==
  \/ timers' > timers
  \/ usingFallback' /\ ~usingFallback
  \/ error' # Undefined /\ error' # error

C24_OnlyValidatedSummaries ==
  /\ \A k \in 1..Len(summaries) :
        summaries[k].by # 0 =>
          /\ Len(summaries[k].citations) > 0
          /\ serve[summaries[k].by].sources > 0
  /\ \A i \in 1..MaxCalls :
        (serve[i].pc = "done" /\ serve[i].error # "none") =>
          /\ serve[i].status = 500
          /\ ~serve[i].success
          /\ ~HasInserted(i)
  /\ \A i \in 1..MaxCalls :
        (serve[i].pc = "done" /\ serve[i].error = "none") =>
          /\ serve[i].status = 200
          /\ serve[i].success
          /\ serve[i].summary # None

\* Between them the invocations have met a zero-source answer and an insert
\* error, and one has inserted a row.
C24_Witness ==
  \E i, j \in 1..MaxCalls :
     /\ i # j
     /\ serve[i].pc = "done" /\ serve[j].pc = "done"
     /\ serve[i].error \in {"citations are empty or corrupted", "insertError"}
     /\ HasInserted(j)
     /\ Len(summaries[Len(summaries)].citations) > 0

(***************************************************************************)
(* Properties of the historical list, checked under SpecHistory.           *)
(***************************************************************************)
\* C25: once fetchHistoricalDigests has completed, historicalDigests holds
\* at most MAX_HISTORICAL_SUMMARIES digests, newest first, and never the
\* most recent row of daily_summaries, also when a row was inserted between
\* the two queries.
C25_HistoryExcludesLatest ==
  historyFetch.pc = "idle" =>
    /\ Len(historicalDigests) <= MAX_HISTORICAL_SUMMARIES
    /\ \A k \in 1..Len(historicalDigests) - 1 :
          historicalDigests[k].timestamp >= historicalDigests[k + 1].timestamp
    /\ \A k \in 1..Len(historicalDigests) :
          historicalDigests[k].id # LatestId(db)

(***************************************************************************)
(* Properties of the rendering, checked under SpecRender.                  *)
(***************************************************************************)
\* C27: a marker [N] of a rendered digest is made a link only to a citation
\* numbered N of that same digest; without such a citation it stays text.
C27_MarkersResolveWithinDigest ==
  result # None =>
    \A i \in 1..Len(result.parts) :
       result.parts[i].k = "a" =>
         \E j \in 1..Len(arg.digest.citations) :
            /\ arg.digest.citations[j].number = result.parts[i].number
            /\ arg.digest.citations[j].url = result.parts[i].href

=========================================================================
